---- MODULE Spec2Model ----
(***************************************************************************)
(* A model of the retrieval-augmented answering pipelines of               *)
(* LLM_WebSearch.py (the plain pipeline) and LLM_WebSearch_Updated.py (the *)
(* self-critiquing pipeline).                                              *)
(*                                                                         *)
(* The external collaborators (completion service, search provider, HTTP   *)
(* fetch) are the environment: every call to one of them is a              *)
(* nondeterministic choice among the outcomes it can produce (it raises,   *)
(* or it returns one of a bounded set of values).                          *)
(*                                                                         *)
(* Python values are represented as follows.                               *)
(*   dict      a function whose domain is the set of keys present          *)
(*   list      a sequence                                                  *)
(*   str       answers, titles, urls, reasons: a TLA+ string;              *)
(*             page text and the context blob: a sequence of chunks        *)
(*             [s, n], chunk s standing for n characters (Text below)      *)
(*   JSON null as a score: the integer NullScore                           *)
(***************************************************************************)
EXTENDS Integers, Sequences, FiniteSets, Bags, TLC

VARIABLES
    self,                 \* the pipeline instance: the fields __init__ assigns
    pipeline,             \* per call: which class's process_query runs
    pc,                   \* per call: position in process_query
    max_context_results,  \* per call: the argument of process_query
    result,               \* per call: the dict `result` of process_query
    search_needed,        \* per call: local of process_query
    search_results,       \* per call: local of process_query
    ranked_results,       \* per call: local of process_query
    top_results,          \* per call: local of get_context_from_results
    i,                    \* per call: loop index of get_context_from_results
    context_parts,        \* per call: the list `context` of get_context_from_results
    context,              \* per call: the str `context` of process_query
    initial_answer,       \* per call: local of process_query
    evaluation,           \* per call: local of process_query
    answer,               \* per call: the str returned by the plain process_query
    query,                \* per call: the argument of process_query
    exc,                  \* per call: the exception propagating out of process_query
    response,             \* per call: the completion response of the stage that ran last
    trace,                \* per call: the collaborators' stages invoked so far, in order
    loop_pc,              \* position in call_claude_with_tools
    prompt,               \* the argument of call_claude_with_tools
    tools_to_use,         \* the argument of call_claude_with_tools
    message,              \* the local `message` of call_claude_with_tools
    tool_calls,           \* the local `tool_calls` of call_claude_with_tools
    tool_responses,       \* the local `tool_responses` of call_claude_with_tools
    tool_call_index,      \* how many of tool_calls the for loop has been through
    returned,             \* what call_claude_with_tools returned
    loop_exc,             \* the exception propagating out of call_claude_with_tools
    completions,          \* the calls of client.messages.create so far, in order
    posts                 \* the calls of requests.post so far, in order

\* the pipeline instance and the variables of process_query
queryvars == <<self, pipeline, pc, query, max_context_results, result, search_needed,
               search_results, ranked_results, top_results, i, context_parts,
               context, initial_answer, evaluation, answer, exc, response, trace>>

\* the variables of call_claude_with_tools
loopvars == <<loop_pc, prompt, tools_to_use, message, tool_calls, tool_responses, tool_call_index,
              returned, loop_exc, completions, posts>>

vars == <<self, pipeline, pc, query, max_context_results, result, search_needed,
          search_results, ranked_results, top_results, i, context_parts,
          context, initial_answer, evaluation, answer, exc, response, trace,
          loop_pc, prompt, tools_to_use, message, tool_calls, tool_responses, tool_call_index,
          returned, loop_exc, completions, posts>>

---------------------------------------------------------------------------
(* Bounds of the model. *)

\* the longest hit list the search provider returns
MaxHits == 2
\* the longest "rankings" array in a ranking response
MaxRankings == 2
\* the longest ranked list handed to get_context_from_results on its own
MaxRanked == 3
\* the longest tool_use list of a completion response
MaxToolCalls == 2
\* the most calls of client.messages.create in a run that keeps its history
MaxCompletions == 3

(* Program constants. *)

\* scrape_webpage keeps at most this many characters of a page
MaxPageChars == 15000
\* the score and the explanation the ranker gives every result when ranking fails
FallbackScore == 5
\* the score every dimension gets when the evaluation fails
NeutralScore == 5
\* the default of process_query's max_context_results
DefaultMaxContextResults == 3

---------------------------------------------------------------------------
(* Generic helpers. *)

Min(a, b) == IF a <= b THEN a ELSE b
Max(a, b) == IF a >= b THEN a ELSE b

\* sequences over S of length at most n
SeqsUpTo(S, n) == UNION {[1..k -> S] : k \in 0..n}

EmptyDict == [k \in {} |-> k]

\* d[k] = v on a dict
SetKey(d, k, v) == [j \in DOMAIN d \cup {k} |-> IF j = k THEN v ELSE d[j]]

\* d.get(k, default)
Get(d, k, default) == IF k \in DOMAIN d THEN d[k] ELSE default

\* the slice takes one element too many
MutantSliceOffByOne(s, m) ==
    IF m >= 0 THEN SubSeq(s, 1, Min(m + 1, Len(s)))
    ELSE SubSeq(s, 1, Max(Len(s) + m + 1, 0))

\* s[:m] on a list, Python's slice: a negative m counts from the end
PySlicePrefix(s, m) ==
    IF m >= 0 THEN SubSeq(s, 1, Min(m, Len(s)))
    ELSE SubSeq(s, 1, Max(Len(s) + m, 0))

\* an element is put in front of the elements whose key equals its own
RECURSIVE MutantInsertBeforeEquals(_, _, _)
MutantInsertBeforeEquals(sorted, x, k) ==
    IF sorted = <<>> THEN <<x>>
    ELSE IF Head(sorted)[k] > x[k]
         THEN <<Head(sorted)>> \o MutantInsertBeforeEquals(Tail(sorted), x, k)
         ELSE <<x>> \o sorted

\* list.sort(key=lambda x: x[k], reverse=True): stable, descending. Built by
\* inserting each element, left to right, behind every element whose key is
\* at least its own.
RECURSIVE InsertDesc(_, _, _)
InsertDesc(sorted, x, k) ==
    IF sorted = <<>> THEN <<x>>
    ELSE IF Head(sorted)[k] >= x[k]
         THEN <<Head(sorted)>> \o InsertDesc(Tail(sorted), x, k)
         ELSE <<x>> \o sorted

RECURSIVE SortDesc(_, _)
SortDesc(s, k) ==
    IF s = <<>> THEN <<>>
    ELSE InsertDesc(SortDesc(SubSeq(s, 1, Len(s) - 1), k), s[Len(s)], k)

---------------------------------------------------------------------------
(* Text: a str whose length matters, as a sequence of chunks. *)

\* a literal of n characters
Lit(s, n) == <<[s |-> s, n |-> n]>>

\* a title, a url or an error message inside a text; "" is the empty text
Str(s) == IF s = "" THEN <<>> ELSE <<[s |-> s, n |-> 2]>>

RECURSIVE TextLen(_)
TextLen(t) == IF t = <<>> THEN 0 ELSE Head(t).n + TextLen(Tail(t))

\* t[:k] for k >= 0
RECURSIVE TextPrefix(_, _)
TextPrefix(t, k) ==
    IF t = <<>> \/ k <= 0 THEN <<>>
    ELSE IF Head(t).n <= k
         THEN <<Head(t)>> \o TextPrefix(Tail(t), k - Head(t).n)
         ELSE <<[Head(t) EXCEPT !.n = k]>>

\* sep.join(parts)
RECURSIVE Join(_, _)
Join(parts, sep) ==
    IF parts = <<>> THEN <<>>
    ELSE IF Len(parts) = 1 THEN parts[1]
    ELSE parts[1] \o sep \o Join(Tail(parts), sep)

\* whether text t occurs in text blob
Contains(blob, t) ==
    \E k \in 0..(Len(blob) - Len(t)) : SubSeq(blob, k + 1, k + Len(t)) = t

---------------------------------------------------------------------------
(* The environment: what the completion service, the search provider and   *)
(* an HTTP fetch can hand back.                                            *)

Calls == {1}
Queries == {"q"}
Urls == {"u1", "u2"}
Errors == {"e1"}

\* the call raised; str(e) is err
Raised(err) == [raises |-> TRUE, err |-> err]
RaisedOutcomes == {Raised(e) : e \in Errors}

\* response.content[0].text of a completion asked for JSON: the text holds
\* the JSON objects of obj (none or one), with prose around it or not
JsonText(prose, obj) == [raises |-> FALSE, prose |-> prose, obj |-> obj]

\* response.content[0].text of a completion asked for an answer
PlainText(text) == [raises |-> FALSE, text |-> text]

\* no completion response is in scope
NoResponse == [none |-> TRUE]

\* the texts a completion can return for objs: not JSON at all, each object
\* bare, and each object inside prose
JsonTexts(objs) ==
    {JsonText(TRUE, <<>>)} \cup {JsonText(p, <<o>>) : p \in BOOLEAN, o \in objs}

\* json.loads(content) succeeds; the JSON value of a text is an object
CanLoad(content) == ~content.prose /\ content.obj # <<>>
\* json.loads(content)
Loads(content) == content.obj[1]

\* re.search(r'(\{.*\})', content, re.DOTALL) and match.group(1): the
\* brace-delimited object when there is one, else the content as it is
ExtractJson(content) ==
    IF content.obj # <<>> THEN [content EXCEPT !.prose = FALSE] ELSE content

---------------------------------------------------------------------------
(* decide_if_search_needed *)

ErrorReasoning == "Error in decision process, defaulting to search"

ClassifierObjects ==
    [search_needed : BOOLEAN, reasoning : {"because"}]
    \cup [search_needed : BOOLEAN]
    \cup [reasoning : {"because"}]

ClassifierResponses == RaisedOutcomes \cup JsonTexts(ClassifierObjects)

\* the except branch returns False
MutantClassifierFailsClosed(resp) ==
    LET content == IF resp.raises THEN resp ELSE ExtractJson(resp)
    IN  IF resp.raises \/ ~CanLoad(content)
           \/ ~({"search_needed", "reasoning"} \subseteq DOMAIN Loads(content))
        THEN <<FALSE, ErrorReasoning>>
        ELSE <<Loads(content)["search_needed"], Loads(content)["reasoning"]>>

decide_if_search_needed(resp) ==
    IF resp.raises THEN <<TRUE, ErrorReasoning>>
    ELSE LET content == ExtractJson(resp)
         IN  IF ~CanLoad(content) THEN <<TRUE, ErrorReasoning>>
             ELSE LET decision == Loads(content)
                  IN  IF "search_needed" \notin DOMAIN decision
                         \/ "reasoning" \notin DOMAIN decision
                      THEN <<TRUE, ErrorReasoning>>
                      ELSE <<decision["search_needed"], decision["reasoning"]>>

---------------------------------------------------------------------------
(* search_web *)

\* what the provider knows of a url
TitleOf(u) == "t-" \o u
BodyOf(u) == "s-" \o u

\* a provider hit; one hit comes without a title
RawHits ==
    {[title |-> TitleOf(u), href |-> u, body |-> BodyOf(u)] : u \in Urls}
    \cup {[href |-> "u1", body |-> BodyOf("u1")]}

SearchOutcomes ==
    RaisedOutcomes \cup {[raises |-> FALSE, hits |-> h] : h \in SeqsUpTo(RawHits, MaxHits)}

search_web(outcome) ==
    IF outcome.raises THEN <<>>
    ELSE [k \in 1..Len(outcome.hits) |->
            [title   |-> Get(outcome.hits[k], "title", ""),
             url     |-> Get(outcome.hits[k], "href", ""),
             snippet |-> Get(outcome.hits[k], "body", "")]]

---------------------------------------------------------------------------
(* rank_search_results *)

\* a "score" of null in a ranking entry
NullScore == -1

Scores == {NullScore, 4, 6}

\* the entries of a "rankings" array: every index from one below to one past
\* the valid ones, and two entries without a "score"
RankEntries ==
    [index : (-1)..MaxHits, score : Scores, explanation : {"why"}]
    \cup {[index |-> 0, explanation |-> "why"],
          [index |-> MaxHits, explanation |-> "why"]}

RankObjects ==
    {[rankings |-> r] : r \in SeqsUpTo(RankEntries, MaxRankings)} \cup {EmptyDict}

RankResponses ==
    RaisedOutcomes
    \cup {JsonText(TRUE, <<>>), JsonText(TRUE, <<[rankings |-> <<>>]>>)}
    \cup {JsonText(FALSE, <<o>>) : o \in RankObjects}

\* the ranking responses the whole pipeline is run with
PipelineRankResponses ==
    RaisedOutcomes
    \cup {JsonText(TRUE, <<>>), JsonText(FALSE, <<EmptyDict>>)}
    \cup {JsonText(FALSE, <<[rankings |-> r]>>) :
            r \in {<<>>,
                   <<[index |-> 0, score |-> 6, explanation |-> "why"]>>,
                   <<[index |-> 0, score |-> 4, explanation |-> "why"],
                     [index |-> 1, score |-> 6, explanation |-> "why"]>>}}

\* the except branch hands the inputs back in reverse
MutantFallbackReversed(results) ==
    [k \in 1..Len(results) |->
        [title           |-> results[Len(results) + 1 - k].title,
         url             |-> results[Len(results) + 1 - k].url,
         snippet         |-> results[Len(results) + 1 - k].snippet,
         relevance_score |-> FallbackScore,
         explanation     |-> "Ranking failed"]]

\* the except branch: every input, in input order, with the fallback score
RankingFallback(results) ==
    [k \in 1..Len(results) |->
        [title           |-> results[k].title,
         url             |-> results[k].url,
         snippet         |-> results[k].snippet,
         relevance_score |-> FallbackScore,
         explanation     |-> "Ranking failed"]]

\* the for loop over rankings: the list it builds, and whether a subscript of
\* an entry raised KeyError. An entry whose index is out of bounds is skipped
\* before its score and explanation are read.
RECURSIVE AddRankings(_, _)
AddRankings(rankings, results) ==
    IF rankings = <<>> THEN [raised |-> FALSE, list |-> <<>>]
    ELSE LET rank == Head(rankings)
             rest == AddRankings(Tail(rankings), results)
         IN  IF "index" \notin DOMAIN rank THEN [raised |-> TRUE, list |-> <<>>]
             ELSE IF ~(0 <= rank["index"] /\ rank["index"] < Len(results)) THEN rest
             ELSE IF "score" \notin DOMAIN rank \/ "explanation" \notin DOMAIN rank
                  THEN [raised |-> TRUE, list |-> <<>>]
             ELSE [raised |-> rest.raised,
                   list   |-> << [title           |-> results[rank["index"] + 1].title,
                                  url             |-> results[rank["index"] + 1].url,
                                  snippet         |-> results[rank["index"] + 1].snippet,
                                  relevance_score |-> rank["score"],
                                  explanation     |-> rank["explanation"]] >>
                              \o rest.list]

\* list.sort raises TypeError: it compares, so the list has two items or more,
\* and some score is null
SortRaises(list, k) ==
    Len(list) >= 2 /\ \E j \in 1..Len(list) : list[j][k] = NullScore

\* the list is returned as built, without the sort
MutantRankUnsorted(results, resp) ==
    IF results = <<>> THEN <<>>
    ELSE IF resp.raises \/ ~CanLoad(resp) THEN RankingFallback(results)
    ELSE IF "rankings" \notin DOMAIN Loads(resp) THEN RankingFallback(results)
    ELSE LET built == AddRankings(Loads(resp)["rankings"], results)
         IN  IF built.raised \/ SortRaises(built.list, "relevance_score")
             THEN RankingFallback(results)
             ELSE built.list

rank_search_results(results, resp) ==
    IF results = <<>> THEN <<>>
    ELSE IF resp.raises \/ ~CanLoad(resp) THEN RankingFallback(results)
    ELSE IF "rankings" \notin DOMAIN Loads(resp) THEN RankingFallback(results)
    ELSE LET built == AddRankings(Loads(resp)["rankings"], results)
         IN  IF built.raised \/ SortRaises(built.list, "relevance_score")
             THEN RankingFallback(results)
             ELSE SortDesc(built.list, "relevance_score")

---------------------------------------------------------------------------
(* scrape_webpage and the sections of get_context_from_results *)

TruncationMarker == Lit("...[content truncated]", 22)

\* the cleaned text of the page at url u: empty, of exactly the limit, or one
\* character over it
PageTexts(u) ==
    {<<>>, Lit("page-" \o u, MaxPageChars), Lit("page-" \o u, MaxPageChars + 1)}

FetchOutcomes(u) ==
    RaisedOutcomes \cup {[raises |-> FALSE, text |-> t] : t \in PageTexts(u)}

FailedToScrape(url, err) ==
    Lit("Failed to scrape content from ", 30) \o Str(url) \o Lit(": ", 2) \o Str(err)

\* a text of exactly the limit is cut as well
MutantScrapeCutsAtLimit(url, fetch) ==
    IF fetch.raises THEN FailedToScrape(url, fetch.err)
    ELSE IF TextLen(fetch.text) >= MaxPageChars
         THEN TextPrefix(fetch.text, MaxPageChars) \o TruncationMarker
         ELSE fetch.text

\* a failed fetch yields no text
MutantScrapeFailsEmpty(url, fetch) ==
    IF fetch.raises THEN <<>>
    ELSE IF TextLen(fetch.text) > MaxPageChars
         THEN TextPrefix(fetch.text, MaxPageChars) \o TruncationMarker
         ELSE fetch.text

scrape_webpage(url, fetch) ==
    IF fetch.raises THEN FailedToScrape(url, fetch.err)
    ELSE IF TextLen(fetch.text) > MaxPageChars
         THEN TextPrefix(fetch.text, MaxPageChars) \o TruncationMarker
         ELSE fetch.text

\* the sections are numbered from 0
MutantSectionFromZero(idx, res, content) ==
    Lit("Source ", 7) \o Lit(ToString(idx), 1) \o Lit(": ", 2) \o Str(res.title)
    \o Lit(" (", 2) \o Str(res.url) \o Lit(")\n\n", 3) \o content \o Lit("\n\n", 2)

\* f"Source {i+1}: {result['title']} ({url})\n\n{content}\n\n", i counted from 0
Section(idx, res, content) ==
    Lit("Source ", 7) \o Lit(ToString(idx + 1), 1) \o Lit(": ", 2) \o Str(res.title)
    \o Lit(" (", 2) \o Str(res.url) \o Lit(")\n\n", 3) \o content \o Lit("\n\n", 2)

---------------------------------------------------------------------------
(* answer_with_context, evaluate_and_refine_answer,                        *)
(* generate_follow_up_questions                                            *)

Answers == {"a1"}
AnswerResponses == RaisedOutcomes \cup {PlainText(a) : a \in Answers}

Apology(err) == "Sorry, I encountered an error while generating your answer: " \o err

answer_with_context(resp) == IF resp.raises THEN Apology(resp.err) ELSE resp.text

ModelScores ==
    [accuracy |-> 7, completeness |-> 7, clarity |-> 7, conciseness |-> 7, evidence |-> 7]

NeutralScores ==
    [accuracy |-> NeutralScore, completeness |-> NeutralScore, clarity |-> NeutralScore,
     conciseness |-> NeutralScore, evidence |-> NeutralScore]

\* a complete evaluation, and one lacking each of its keys
CriticObjects ==
    {[evaluation |-> ModelScores, issues |-> <<"i1">>, refined_answer |-> "r1"],
     [issues |-> <<"i1">>, refined_answer |-> "r1"],
     [evaluation |-> ModelScores, refined_answer |-> "r1"],
     [evaluation |-> ModelScores, issues |-> <<"i1">>]}

CriticResponses ==
    RaisedOutcomes
    \cup {JsonText(TRUE, <<>>),
          JsonText(TRUE, <<[evaluation |-> ModelScores, issues |-> <<"i1">>,
                            refined_answer |-> "r1"]>>)}
    \cup {JsonText(FALSE, <<o>>) : o \in CriticObjects}

\* the except branch returns an empty refined answer
MutantCriticDropsDraft(draft, resp) ==
    IF resp.raises \/ ~CanLoad(resp)
    THEN [evaluation     |-> NeutralScores,
          issues         |-> <<"Error in evaluation process">>,
          refined_answer |-> ""]
    ELSE Loads(resp)

evaluate_and_refine_answer(draft, resp) ==
    IF resp.raises \/ ~CanLoad(resp)
    THEN [evaluation     |-> NeutralScores,
          issues         |-> <<"Error in evaluation process">>,
          refined_answer |-> draft]
    ELSE Loads(resp)

FollowUpQuestion(p) == [question |-> "f" \o ToString(p), rationale |-> "why", priority |-> p]

FollowUpObjects ==
    {[follow_up_questions |-> <<FollowUpQuestion(1), FollowUpQuestion(3)>>],
     [follow_up_questions |-> <<[question |-> "f", rationale |-> "why"]>>],
     EmptyDict}

FollowUpResponses ==
    RaisedOutcomes \cup {JsonText(TRUE, <<>>)} \cup {JsonText(FALSE, <<o>>) : o \in FollowUpObjects}

\* the questions are returned in the order of the response
MutantFollowUpsUnsorted(resp) ==
    IF resp.raises \/ ~CanLoad(resp) THEN <<>>
    ELSE IF "follow_up_questions" \notin DOMAIN Loads(resp) THEN <<>>
    ELSE LET follow_ups == Loads(resp)["follow_up_questions"]
         IN  IF \E j \in 1..Len(follow_ups) : "priority" \notin DOMAIN follow_ups[j]
             THEN <<>>
             ELSE follow_ups

generate_follow_up_questions(resp) ==
    IF resp.raises \/ ~CanLoad(resp) THEN <<>>
    ELSE IF "follow_up_questions" \notin DOMAIN Loads(resp) THEN <<>>
    ELSE LET follow_ups == Loads(resp)["follow_up_questions"]
         IN  IF \E j \in 1..Len(follow_ups) : "priority" \notin DOMAIN follow_ups[j]
             THEN <<>>
             ELSE SortDesc(follow_ups, "priority")

---------------------------------------------------------------------------
(* process_query, one action per stage it calls. *)

NoInformation == "I couldn't find any relevant information on the web for your query."

\* the dict starts with search_performed set
MutantResultStartsSearched(q) ==
    [original_query      |-> q,
     search_performed    |-> TRUE,
     answer              |-> "",
     follow_up_questions |-> <<>>,
     evaluation          |-> EmptyDict,
     refined_answer      |-> "",
     reasoning           |-> ""]

\* the dict process_query starts from
InitialResult(q) ==
    [original_query      |-> q,
     search_performed    |-> FALSE,
     answer              |-> "",
     follow_up_questions |-> <<>>,
     evaluation          |-> EmptyDict,
     refined_answer      |-> "",
     reasoning           |-> ""]

Invoke(c, stage, arg) == trace' = [trace EXCEPT ![c] = Append(@, [stage |-> stage, arg |-> arg])]

\* an invocation of which the value returned is kept too
InvokeReturning(c, stage, arg, out) ==
    trace' = [trace EXCEPT ![c] = Append(@, [stage |-> stage, arg |-> arg, out |-> out])]

\* an invocation of which the completion response and the value returned are kept too
InvokeOut(c, stage, arg, resp, out) ==
    trace' = [trace EXCEPT ![c] =
        Append(@, [stage |-> stage, arg |-> arg, resp |-> resp, out |-> out])]

\* the early return is never taken
MutantNeverNoResults(found) == FALSE

\* if not search_results
NoResults(found) == found = <<>>

\* a classifier whose completion raised is asked again
MutantClassifyRetries(c) ==
    /\ pipeline[c] = "updated" /\ pc[c] = "start"
    /\ \E resp \in ClassifierResponses :
         LET decision == decide_if_search_needed(resp)
         IN  /\ search_needed' = [search_needed EXCEPT ![c] = decision[1]]
             /\ result' = [result EXCEPT ![c] =
                    SetKey(InitialResult(query[c]), "search_decision_reasoning", decision[2])]
             /\ pc' = [pc EXCEPT ![c] = IF resp.raises /\ trace[c] = <<>> THEN "start"
                                         ELSE IF decision[1] THEN "search" ELSE "direct"]
             /\ response' = [response EXCEPT ![c] = resp]
             /\ InvokeReturning(c, "classifier", query[c], decision)
    /\ UNCHANGED loopvars
    /\ UNCHANGED self
    /\ UNCHANGED <<pipeline, query, max_context_results, search_results, ranked_results,
                   top_results, i, context_parts, context, initial_answer, evaluation,
                   answer, exc>>

\* Step 1 of the self-critiquing process_query: the result dict and the decision
Classify(c) ==
    /\ pipeline[c] = "updated" /\ pc[c] = "start"
    /\ \E resp \in ClassifierResponses :
         LET decision == decide_if_search_needed(resp)
         IN  /\ search_needed' = [search_needed EXCEPT ![c] = decision[1]]
             /\ result' = [result EXCEPT ![c] =
                    SetKey(InitialResult(query[c]), "search_decision_reasoning", decision[2])]
             /\ pc' = [pc EXCEPT ![c] = IF decision[1] THEN "search" ELSE "direct"]
             /\ response' = [response EXCEPT ![c] = resp]
             /\ InvokeReturning(c, "classifier", query[c], decision)
    /\ UNCHANGED loopvars
    /\ UNCHANGED self
    /\ UNCHANGED <<pipeline, query, max_context_results, search_results, ranked_results,
                   top_results, i, context_parts, context, initial_answer, evaluation,
                   answer, exc>>

\* the results are kept in one place for all the calls on the instance
MutantSearchSharesResults(c) ==
    /\ pipeline[c] = "updated" /\ pc[c] = "search"
    /\ \E outcome \in SearchOutcomes :
         LET found == search_web(outcome)
             performed == SetKey(result[c], "search_performed", TRUE)
         IN  /\ search_results' = [d \in DOMAIN search_results |-> found]
             /\ IF NoResults(found)
                THEN /\ result' = [result EXCEPT ![c] = SetKey(performed, "answer", NoInformation)]
                     /\ pc' = [pc EXCEPT ![c] = "done"]
                ELSE /\ result' = [result EXCEPT ![c] = performed]
                     /\ pc' = [pc EXCEPT ![c] = "rank"]
    /\ response' = [response EXCEPT ![c] = NoResponse]
    /\ Invoke(c, "search", query[c])
    /\ UNCHANGED loopvars
    /\ UNCHANGED self
    /\ UNCHANGED <<pipeline, query, max_context_results, search_needed, ranked_results,
                   top_results, i, context_parts, context, initial_answer, evaluation,
                   answer, exc>>

\* the search branch up to the early return on no results
Search(c) ==
    /\ pipeline[c] = "updated" /\ pc[c] = "search"
    /\ \E outcome \in SearchOutcomes :
         LET found == search_web(outcome)
             performed == SetKey(result[c], "search_performed", TRUE)
         IN  /\ search_results' = [search_results EXCEPT ![c] = found]
             /\ IF NoResults(found)
                THEN /\ result' = [result EXCEPT ![c] = SetKey(performed, "answer", NoInformation)]
                     /\ pc' = [pc EXCEPT ![c] = "done"]
                ELSE /\ result' = [result EXCEPT ![c] = performed]
                     /\ pc' = [pc EXCEPT ![c] = "rank"]
    /\ response' = [response EXCEPT ![c] = NoResponse]
    /\ Invoke(c, "search", query[c])
    /\ UNCHANGED loopvars
    /\ UNCHANGED self
    /\ UNCHANGED <<pipeline, query, max_context_results, search_needed, ranked_results,
                   top_results, i, context_parts, context, initial_answer, evaluation,
                   answer, exc>>

\* the plain process_query up to the early return on no results
PlainSearch(c) ==
    /\ pipeline[c] = "plain" /\ pc[c] = "start"
    /\ \E outcome \in SearchOutcomes :
         LET found == search_web(outcome)
         IN  /\ search_results' = [search_results EXCEPT ![c] = found]
             /\ IF NoResults(found)
                THEN /\ answer' = [answer EXCEPT ![c] = NoInformation]
                     /\ pc' = [pc EXCEPT ![c] = "done"]
                ELSE /\ UNCHANGED answer
                     /\ pc' = [pc EXCEPT ![c] = "rank"]
    /\ Invoke(c, "search", query[c])
    /\ UNCHANGED loopvars
    /\ UNCHANGED self
    /\ UNCHANGED <<pipeline, query, max_context_results, result, search_needed,
                   ranked_results, top_results, i, context_parts, context,
                   initial_answer, evaluation, exc, response>>

\* the call of rank_search_results, the ranking response drawn from resps
RankWith(c, resps) ==
    /\ pc[c] = "rank"
    /\ \E resp \in resps :
         /\ ranked_results' = [ranked_results EXCEPT ![c] =
                rank_search_results(search_results[c], resp)]
         /\ response' = [response EXCEPT ![c] = IF search_results[c] = <<>> THEN NoResponse ELSE resp]
    /\ IF search_results[c] = <<>> THEN UNCHANGED trace ELSE Invoke(c, "ranker", query[c])
    /\ pc' = [pc EXCEPT ![c] = "context"]
    /\ UNCHANGED loopvars
    /\ UNCHANGED self
    /\ UNCHANGED <<pipeline, query, max_context_results, result, search_needed,
                   search_results, top_results, i, context_parts, context,
                   initial_answer, evaluation, answer, exc>>

Rank(c) == pipeline[c] = "updated" /\ RankWith(c, PipelineRankResponses)

\* The plain pipeline passes response_format to messages.create; a client
\* that rejects the argument is the outcome in which the call raises.
PlainRank(c) == pipeline[c] = "plain" /\ RankWith(c, PipelineRankResponses)

\* get_context_from_results: the top results are taken
ContextStart(c) ==
    /\ pc[c] = "context"
    /\ top_results' = [top_results EXCEPT ![c] =
           PySlicePrefix(ranked_results[c], max_context_results[c])]
    /\ i' = [i EXCEPT ![c] = 0]
    /\ context_parts' = [context_parts EXCEPT ![c] = <<>>]
    /\ response' = [response EXCEPT ![c] = NoResponse]
    /\ pc' = [pc EXCEPT ![c] = "scrape"]
    /\ UNCHANGED loopvars
    /\ UNCHANGED self
    /\ UNCHANGED <<pipeline, query, max_context_results, result, search_needed,
                   search_results, ranked_results, context, initial_answer,
                   evaluation, answer, exc, trace>>

\* get_context_from_results: one pass of the loop over the top results
Scrape(c) ==
    /\ pc[c] = "scrape" /\ i[c] < Len(top_results[c])
    /\ LET res == top_results[c][i[c] + 1]
       IN  \E fetch \in FetchOutcomes(res.url) :
             LET content == scrape_webpage(res.url, fetch)
             IN  /\ context_parts' = [context_parts EXCEPT ![c] =
                        IF content # <<>> THEN Append(@, Section(i[c], res, content)) ELSE @]
                 /\ trace' = [trace EXCEPT ![c] =
                        Append(@, [stage |-> "extractor", arg |-> res.url,
                                   fetch |-> fetch, out |-> content])]
    /\ i' = [i EXCEPT ![c] = @ + 1]
    /\ UNCHANGED loopvars
    /\ UNCHANGED self
    /\ UNCHANGED <<pipeline, pc, query, max_context_results, result, search_needed,
                   search_results, ranked_results, top_results, context,
                   initial_answer, evaluation, answer, exc, response>>

\* get_context_from_results returns the joined sections
ContextReturn(c) ==
    /\ pc[c] = "scrape" /\ i[c] = Len(top_results[c])
    /\ context' = [context EXCEPT ![c] = Join(context_parts[c], Lit("\n", 1))]
    /\ pc' = [pc EXCEPT ![c] = "answer"]
    /\ UNCHANGED loopvars
    /\ UNCHANGED self
    /\ UNCHANGED <<pipeline, query, max_context_results, result, search_needed,
                   search_results, ranked_results, top_results, i, context_parts,
                   initial_answer, evaluation, answer, exc, response, trace>>

\* the draft answer of the self-critiquing pipeline
Answer(c) ==
    /\ pipeline[c] = "updated" /\ pc[c] = "answer"
    /\ \E resp \in AnswerResponses :
         /\ initial_answer' = [initial_answer EXCEPT ![c] = answer_with_context(resp)]
         /\ result' = [result EXCEPT ![c] =
                SetKey(@, "initial_answer", answer_with_context(resp))]
         /\ response' = [response EXCEPT ![c] = resp]
         /\ InvokeOut(c, "synthesizer", query[c], resp, answer_with_context(resp))
    /\ pc' = [pc EXCEPT ![c] = "critic"]
    /\ UNCHANGED loopvars
    /\ UNCHANGED self
    /\ UNCHANGED <<pipeline, query, max_context_results, search_needed, search_results,
                   ranked_results, top_results, i, context_parts, context, evaluation,
                   answer, exc>>

\* a synthesis that raised gives the empty string
MutantPlainAnswerDropsApology(c) ==
    /\ pipeline[c] = "plain" /\ pc[c] = "answer"
    /\ \E resp \in AnswerResponses :
         /\ answer' = [answer EXCEPT ![c] = IF resp.raises THEN "" ELSE resp.text]
         /\ response' = [response EXCEPT ![c] = resp]
         /\ InvokeOut(c, "synthesizer", query[c], resp, answer_with_context(resp))
    /\ pc' = [pc EXCEPT ![c] = "done"]
    /\ UNCHANGED loopvars
    /\ UNCHANGED self
    /\ UNCHANGED <<pipeline, query, max_context_results, result, search_needed,
                   search_results, ranked_results, top_results, i, context_parts,
                   context, initial_answer, evaluation, exc>>

\* the answer the plain pipeline returns
PlainAnswer(c) ==
    /\ pipeline[c] = "plain" /\ pc[c] = "answer"
    /\ \E resp \in AnswerResponses :
         /\ answer' = [answer EXCEPT ![c] = answer_with_context(resp)]
         /\ response' = [response EXCEPT ![c] = resp]
         /\ InvokeOut(c, "synthesizer", query[c], resp, answer_with_context(resp))
    /\ pc' = [pc EXCEPT ![c] = "done"]
    /\ UNCHANGED loopvars
    /\ UNCHANGED self
    /\ UNCHANGED <<pipeline, query, max_context_results, result, search_needed,
                   search_results, ranked_results, top_results, i, context_parts,
                   context, initial_answer, evaluation, exc>>

\* the context is not stored
MutantStoreSkipsContext(res, ev, ctx) ==
    IF {"evaluation", "issues", "refined_answer"} \subseteq DOMAIN ev
    THEN [raised |-> FALSE,
          result |-> SetKey(SetKey(SetKey(SetKey(res,
                        "evaluation", ev["evaluation"]),
                        "issues", ev["issues"]),
                        "refined_answer", ev["refined_answer"]),
                        "answer", ev["refined_answer"])]
    ELSE [raised |-> TRUE, result |-> res]

\* the refined answer is stored but not made the answer
MutantStoreSkipsAnswer(res, ev, ctx) ==
    IF {"evaluation", "issues", "refined_answer"} \subseteq DOMAIN ev
    THEN [raised |-> FALSE,
          result |-> SetKey(SetKey(SetKey(SetKey(res,
                        "evaluation", ev["evaluation"]),
                        "issues", ev["issues"]),
                        "refined_answer", ev["refined_answer"]),
                        "context", ctx)]
    ELSE [raised |-> TRUE, result |-> res]

\* result["evaluation"], ["issues"], ["refined_answer"], ["answer"] and
\* ["context"] are assigned in this order from the critic's dict ev; the
\* first key ev lacks raises KeyError and leaves the rest unassigned
StoreEvaluation(res, ev, ctx) ==
    IF "evaluation" \notin DOMAIN ev THEN [raised |-> TRUE, result |-> res]
    ELSE IF "issues" \notin DOMAIN ev
         THEN [raised |-> TRUE, result |-> SetKey(res, "evaluation", ev["evaluation"])]
    ELSE IF "refined_answer" \notin DOMAIN ev
         THEN [raised |-> TRUE,
               result |-> SetKey(SetKey(res, "evaluation", ev["evaluation"]),
                                 "issues", ev["issues"])]
    ELSE [raised |-> FALSE,
          result |-> SetKey(SetKey(SetKey(SetKey(SetKey(res,
                        "evaluation", ev["evaluation"]),
                        "issues", ev["issues"]),
                        "refined_answer", ev["refined_answer"]),
                        "answer", ev["refined_answer"]),
                        "context", ctx)]

\* Step 3: self-critique and refinement
Critic(c) ==
    /\ pipeline[c] = "updated" /\ pc[c] = "critic"
    /\ \E resp \in CriticResponses :
         LET ev == evaluate_and_refine_answer(initial_answer[c], resp)
             stored == StoreEvaluation(result[c], ev, context[c])
         IN  /\ evaluation' = [evaluation EXCEPT ![c] = ev]
             /\ result' = [result EXCEPT ![c] = stored.result]
             /\ pc' = [pc EXCEPT ![c] = IF stored.raised THEN "raised" ELSE "followup"]
             /\ exc' = [exc EXCEPT ![c] = IF stored.raised THEN "KeyError" ELSE @]
             /\ response' = [response EXCEPT ![c] = resp]
    /\ Invoke(c, "critic", initial_answer[c])
    /\ UNCHANGED loopvars
    /\ UNCHANGED self
    /\ UNCHANGED <<pipeline, query, max_context_results, search_needed, search_results,
                   ranked_results, top_results, i, context_parts, context,
                   initial_answer, answer>>

\* the no-search branch: the model answers from its own knowledge
Direct(c) ==
    /\ pipeline[c] = "updated" /\ pc[c] = "direct"
    /\ \E resp \in AnswerResponses :
         /\ result' = [result EXCEPT ![c] =
                IF resp.raises THEN SetKey(@, "answer", Apology(resp.err))
                ELSE SetKey(SetKey(@, "answer", resp.text), "initial_answer", resp.text)]
         /\ response' = [response EXCEPT ![c] = resp]
         /\ InvokeOut(c, "direct", query[c], resp,
                      IF resp.raises THEN Apology(resp.err) ELSE resp.text)
    /\ pc' = [pc EXCEPT ![c] = "followup"]
    /\ UNCHANGED loopvars
    /\ UNCHANGED self
    /\ UNCHANGED <<pipeline, query, max_context_results, search_needed, search_results,
                   ranked_results, top_results, i, context_parts, context,
                   initial_answer, evaluation, answer, exc>>

\* Step 2: follow-up questions, and the return of the result
FollowUps(c) ==
    /\ pipeline[c] = "updated" /\ pc[c] = "followup"
    /\ \E resp \in FollowUpResponses :
         /\ result' = [result EXCEPT ![c] =
                SetKey(@, "follow_up_questions", generate_follow_up_questions(resp))]
         /\ response' = [response EXCEPT ![c] = resp]
         /\ InvokeReturning(c, "followup", result[c]["answer"],
                            generate_follow_up_questions(resp))
    /\ pc' = [pc EXCEPT ![c] = "done"]
    /\ UNCHANGED loopvars
    /\ UNCHANGED self
    /\ UNCHANGED <<pipeline, query, max_context_results, search_needed, search_results,
                   ranked_results, top_results, i, context_parts, context,
                   initial_answer, evaluation, answer, exc>>

---------------------------------------------------------------------------
(* MCP_test.py: the tool registry, MCPTool.execute and                     *)
(* call_claude_with_tools.                                                 *)

MCPTool(name, server_url) == [name |-> name, server_url |-> server_url]

\* the module-level list `tools`
tools ==
    <<MCPTool("file_system", "http://localhost:8080/files"),
      MCPTool("database", "http://localhost:8081/query")>>

Prompts == {"Please read the file quarterly_report.txt and summarize the key findings"}

\* the lists passed as tools_to_use: [tools[0]], as the script does, and all
\* of the tools
Manifests == {<<tools[1]>>, tools}

\* [{"name": tool.name, "description": tool.description} for tool in tools_to_use]
tool_configs(manifest) == [k \in DOMAIN manifest |-> [name |-> manifest[k].name]]

\* a requested tool call: a name and the parameters; the id is given by the
\* position in the response
ToolRequests ==
    {[name |-> "file_system", parameters |-> [method |-> "read", params |-> "args"]],
     [name |-> "database", parameters |-> EmptyDict],
     [name |-> "calculator", parameters |-> [method |-> "add", params |-> "args"]]}

ToolCall(k, req) ==
    [id |-> "call-" \o ToString(k), name |-> req.name, parameters |-> req.parameters]

\* the values of message.tool_use
ToolUses ==
    {[k \in DOMAIN reqs |-> ToolCall(k, reqs[k])] : reqs \in SeqsUpTo(ToolRequests, MaxToolCalls)}

\* what client.messages.create hands back: it raises, or a message
Messages == [raises : {FALSE}, content : {"text"}, tool_use : ToolUses]
CompletionOutcomes == RaisedOutcomes \cup Messages

\* the request body of MCPTool.execute
request_data(method, params) ==
    [method |-> method, params |-> params, jsonrpc |-> "2.0", id |-> 1]

\* the JSON value the endpoint at url answers a request with
JsonOf(url, data) == [served_by |-> url, method |-> data.method]

\* what requests.post(...) followed by response.json() does: one of them
\* raises, or the JSON value of the body
PostOutcomes(url, data) == RaisedOutcomes \cup {[raises |-> FALSE, json |-> JsonOf(url, data)]}

\* json.dumps(value): the text of a JSON value
Dumps(value) == [text_of |-> value]

\* the tools of the list named name, in the order of the list
Matching(list, name) == SelectSeq(list, LAMBDA t : t.name = name)

\* the lookup takes the first registered tool, whatever the name
MutantFindsFirstTool(name) == [found |-> TRUE, tool |-> tools[1]]

\* next(t for t in tools if t.name == name): the first match in the
\* module-level list, StopIteration when there is none
FindTool(name) ==
    IF Matching(tools, name) = <<>> THEN [found |-> FALSE]
    ELSE [found |-> TRUE, tool |-> Matching(tools, name)[1]]

\* the loop goes on only while several tools are requested
MutantLoopNeedsTwoCalls(msg) == Len(msg.tool_use) > 1

\* while message.tool_use
LoopContinues(msg) == msg.tool_use # <<>>

\* the message lists handed to client.messages.create
UserTurn(text) == [role |-> "user", content |-> text]
AssistantTurn(msg) == [role |-> "assistant", content |-> msg.content, tool_use |-> msg.tool_use]
\* only the output of the last tool call is handed back
MutantToolResultTurnLastOnly(outputs) ==
    [role |-> "user", tool_results |-> SubSeq(outputs, Len(outputs), Len(outputs))]

ToolResultTurn(outputs) == [role |-> "user", tool_results |-> outputs]

FirstMessages(text) == <<UserTurn(text)>>
NextMessages(text, msg, outputs) ==
    <<UserTurn(text), msg, AssistantTurn(msg), ToolResultTurn(outputs)>>

\* client.messages.create(messages=msgs, tools=tool_configs): the call is
\* recorded when record is set; a raise propagates out of the function
Create(msgs, record) ==
    \E outcome \in CompletionOutcomes :
        /\ completions' = IF record
                          THEN Append(completions,
                                   [messages |-> msgs,
                                    tools    |-> tool_configs(tools_to_use),
                                    outcome  |-> outcome])
                          ELSE completions
        /\ IF outcome.raises
           THEN /\ loop_pc' = "raised"
                /\ loop_exc' = outcome.err
                /\ UNCHANGED message
           ELSE /\ loop_pc' = "while"
                /\ message' = outcome
                /\ UNCHANGED loop_exc

\* lines 51-65: the first message, with the prompt alone
FirstCompletion(record) ==
    /\ loop_pc = "first"
    /\ Create(FirstMessages(prompt), record)
    /\ UNCHANGED <<prompt, tools_to_use, tool_calls, tool_responses, tool_call_index, returned, posts>>
    /\ UNCHANGED queryvars

\* line 68 and lines 69-70, or line 101
WhileTest ==
    /\ loop_pc = "while"
    /\ IF LoopContinues(message)
       THEN /\ tool_calls' = message.tool_use
            /\ tool_responses' = <<>>
            /\ tool_call_index' = 0
            /\ loop_pc' = "for"
            /\ UNCHANGED returned
       ELSE /\ returned' = message.content
            /\ loop_pc' = "returned"
            /\ UNCHANGED <<tool_calls, tool_responses, tool_call_index>>
    /\ UNCHANGED <<prompt, tools_to_use, message, loop_exc, completions, posts>>
    /\ UNCHANGED queryvars

\* lines 72-85: one pass of the for loop, the lookup and MCPTool.execute
Dispatch(record) ==
    /\ loop_pc = "for" /\ tool_call_index < Len(tool_calls)
    /\ LET tool_call == tool_calls[tool_call_index + 1]
           lookup == FindTool(tool_call["name"])
       IN  IF ~lookup.found
           THEN /\ loop_pc' = "raised"
                /\ loop_exc' = "StopIteration"
                /\ UNCHANGED <<tool_responses, tool_call_index, posts>>
           ELSE LET data == request_data(Get(tool_call["parameters"], "method", ""),
                                         Get(tool_call["parameters"], "params", EmptyDict))
                IN  \E outcome \in PostOutcomes(lookup.tool.server_url, data) :
                      /\ posts' = IF record
                                  THEN Append(posts, [url     |-> lookup.tool.server_url,
                                                      json    |-> data,
                                                      outcome |-> outcome])
                                  ELSE posts
                      /\ IF outcome.raises
                         THEN /\ loop_pc' = "raised"
                              /\ loop_exc' = outcome.err
                              /\ UNCHANGED <<tool_responses, tool_call_index>>
                         ELSE /\ tool_responses' =
                                    Append(tool_responses,
                                           [tool_call_id |-> tool_call["id"],
                                            output       |-> Dumps(outcome.json)])
                              /\ tool_call_index' = tool_call_index + 1
                              /\ UNCHANGED <<loop_pc, loop_exc>>
    /\ UNCHANGED <<prompt, tools_to_use, message, tool_calls, returned, completions>>
    /\ UNCHANGED queryvars

\* lines 88-99: the conversation is continued with the tool results
NextCompletion(record) ==
    /\ loop_pc = "for" /\ tool_call_index = Len(tool_calls)
    /\ Create(NextMessages(prompt, message, tool_responses), record)
    /\ UNCHANGED <<prompt, tools_to_use, tool_calls, tool_responses, tool_call_index, returned, posts>>
    /\ UNCHANGED queryvars

---------------------------------------------------------------------------
(* The specification of process_query: each call runs either pipeline.     *)

Pipelines == {"plain", "updated"}

\* call_claude_with_tools before its first statement
LoopAt(position) ==
    /\ loop_pc = position
    /\ prompt \in Prompts
    /\ tools_to_use \in Manifests
    /\ message = NoResponse
    /\ tool_calls = <<>>
    /\ tool_responses = <<>>
    /\ tool_call_index = 0
    /\ returned = ""
    /\ loop_exc = ""
    /\ completions = <<>>
    /\ posts = <<>>

\* process_query at the given stage, nothing done yet
\* __init__: self.api_key, self.client and self.model
LLMWebSearchPipeline(api_key) ==
    [api_key |-> api_key, client |-> "Anthropic-" \o api_key,
     model |-> "claude-3-7-sonnet-20250219"]

\* one instance, and the process_query calls cs on it at the given stage
ProcessQueryAt(cs, stage) ==
    /\ self = LLMWebSearchPipeline("key")
    /\ pc = [c \in cs |-> stage]
    /\ query \in [cs -> Queries]
    /\ result = [c \in cs |-> EmptyDict]
    /\ search_needed = [c \in cs |-> FALSE]
    /\ top_results = [c \in cs |-> <<>>]
    /\ i = [c \in cs |-> 0]
    /\ context_parts = [c \in cs |-> <<>>]
    /\ context = [c \in cs |-> <<>>]
    /\ initial_answer = [c \in cs |-> ""]
    /\ evaluation = [c \in cs |-> EmptyDict]
    /\ answer = [c \in cs |-> ""]
    /\ exc = [c \in cs |-> ""]
    /\ response = [c \in cs |-> NoResponse]
    /\ trace = [c \in cs |-> <<>>]

PipelineAt(stage) == ProcessQueryAt(Calls, stage)

\* process_query at the given stage, call_claude_with_tools not called
Idle(stage) == PipelineAt(stage) /\ LoopAt("unused") /\ tools_to_use = tools

Init ==
    /\ Idle("start")
    /\ pipeline \in [Calls -> Pipelines]
    /\ max_context_results = [c \in Calls |-> DefaultMaxContextResults]
    /\ search_results = [c \in Calls |-> <<>>]
    /\ ranked_results = [c \in Calls |-> <<>>]

Next ==
    \E c \in Calls :
        \/ Classify(c)
        \/ Search(c)
        \/ PlainSearch(c)
        \/ Rank(c)
        \/ PlainRank(c)
        \/ ContextStart(c)
        \/ Scrape(c)
        \/ ContextReturn(c)
        \/ Answer(c)
        \/ PlainAnswer(c)
        \/ Critic(c)
        \/ Direct(c)
        \/ FollowUps(c)

Spec == Init /\ [][Next]_vars

---------------------------------------------------------------------------
(* rank_search_results on its own: every result list the search can hand   *)
(* over, against every ranking response.                                   *)

SearchResultLists == {search_web(outcome) : outcome \in SearchOutcomes}

RankCall(c) == RankWith(c, RankResponses)

InitRank ==
    /\ Idle("rank")
    /\ pipeline \in [Calls -> Pipelines]
    /\ max_context_results = [c \in Calls |-> DefaultMaxContextResults]
    /\ search_results \in [Calls -> SearchResultLists]
    /\ ranked_results = [c \in Calls |-> <<>>]

NextRank == \E c \in Calls : RankCall(c)

SpecRank == InitRank /\ [][NextRank]_vars

---------------------------------------------------------------------------
(* get_context_from_results on its own: every ranked list up to MaxRanked  *)
(* results, against every max_results from below -MaxRanked to above       *)
(* MaxRanked.                                                              *)

RankedItems ==
    {[title |-> TitleOf(u), url |-> u, snippet |-> BodyOf(u),
      relevance_score |-> 6, explanation |-> "why"] : u \in Urls}

InitContext ==
    /\ Idle("context")
    /\ pipeline \in [Calls -> Pipelines]
    /\ max_context_results \in [Calls -> (0 - MaxRanked - 1)..(MaxRanked + 1)]
    /\ search_results = [c \in Calls |-> <<>>]
    /\ ranked_results \in [Calls -> SeqsUpTo(RankedItems, MaxRanked)]

NextContext == \E c \in Calls : ContextStart(c) \/ Scrape(c) \/ ContextReturn(c)

SpecContext == InitContext /\ [][NextContext]_vars

---------------------------------------------------------------------------
(* call_claude_with_tools on its own. SpecTools keeps the history of the   *)
(* completion calls and of the POSTs, and stops making completion calls    *)
(* after MaxCompletions of them. SpecLoop keeps no history and has no such  *)
(* stop; the function is sequential code, so a step that can be taken is   *)
(* taken.                                                                  *)

InitPipelineUnused ==
    /\ PipelineAt("unused")
    /\ pipeline = [c \in Calls |-> "updated"]
    /\ max_context_results = [c \in Calls |-> DefaultMaxContextResults]
    /\ search_results = [c \in Calls |-> <<>>]
    /\ ranked_results = [c \in Calls |-> <<>>]

InitTools == InitPipelineUnused /\ LoopAt("first")

RecordedNextCompletion == Len(completions) < MaxCompletions /\ NextCompletion(TRUE)

NextTools ==
    \/ FirstCompletion(TRUE)
    \/ WhileTest
    \/ Dispatch(TRUE)
    \/ RecordedNextCompletion

SpecTools == InitTools /\ [][NextTools]_vars

NextLoop ==
    \/ FirstCompletion(FALSE)
    \/ WhileTest
    \/ Dispatch(FALSE)
    \/ NextCompletion(FALSE)

SpecLoop == InitTools /\ [][NextLoop]_vars /\ WF_vars(NextLoop)

---------------------------------------------------------------------------
(* Two process_query calls in progress at once, their steps interleaved in *)
(* every order: call 2 is of the self-critiquing class, call 1 of either   *)
(* class. Each stage is run against two outcomes, one of them a failure,   *)
(* and the search against no hit and one hit.                              *)

TwoCalls == {1, 2}

TwoSearchResults ==
    {<<>>} \cup {<<[title |-> TitleOf(u), url |-> u, snippet |-> BodyOf(u)]>> : u \in Urls}

TwoFetchOutcomes(u) ==
    RaisedOutcomes \cup {[raises |-> FALSE, text |-> Lit("page-" \o u, MaxPageChars)]}

\* the completion responses the given stage is run against
TwoResponses(stage) ==
    CASE stage = "classifier" ->
           {JsonText(FALSE, <<[search_needed |-> b, reasoning |-> "because"]>>) : b \in BOOLEAN}
      [] stage = "ranker" ->
           RaisedOutcomes
           \cup {JsonText(FALSE, <<[rankings |->
                    <<[index |-> 0, score |-> 6, explanation |-> "why"]>>]>>)}
      [] stage \in {"synthesizer", "direct"} -> AnswerResponses
      [] stage = "critic" ->
           RaisedOutcomes
           \cup {JsonText(FALSE, <<[evaluation |-> ModelScores, issues |-> <<"i1">>,
                                    refined_answer |-> "r1"]>>)}
      [] stage = "followup" ->
           RaisedOutcomes
           \cup {JsonText(FALSE, <<[follow_up_questions |->
                    <<FollowUpQuestion(1), FollowUpQuestion(3)>>]>>)}
      [] OTHER -> {}

\* what call c has been handed is among these outcomes
TwoOutcomes(c) ==
    /\ search_results[c] \in TwoSearchResults
    /\ trace[c] # <<>> =>
         LET last == trace[c][Len(trace[c])]
         IN  /\ last.stage = "extractor" => last.fetch \in TwoFetchOutcomes(last.arg)
             /\ response[c] \in {NoResponse} \cup TwoResponses(last.stage)

InitTwo ==
    /\ ProcessQueryAt(TwoCalls, "start") /\ LoopAt("unused") /\ tools_to_use = tools
    /\ pipeline \in {[c \in TwoCalls |-> IF c = 1 THEN p ELSE "updated"] : p \in Pipelines}
    /\ max_context_results = [c \in TwoCalls |-> DefaultMaxContextResults]
    /\ search_results = [c \in TwoCalls |-> <<>>]
    /\ ranked_results = [c \in TwoCalls |-> <<>>]

NextTwo ==
    \E c \in TwoCalls :
        \/ Classify(c) /\ TwoOutcomes(c)'
        \/ Search(c) /\ TwoOutcomes(c)'
        \/ PlainSearch(c) /\ TwoOutcomes(c)'
        \/ Rank(c) /\ TwoOutcomes(c)'
        \/ PlainRank(c) /\ TwoOutcomes(c)'
        \/ ContextStart(c) /\ TwoOutcomes(c)'
        \/ Scrape(c) /\ TwoOutcomes(c)'
        \/ ContextReturn(c) /\ TwoOutcomes(c)'
        \/ Answer(c) /\ TwoOutcomes(c)'
        \/ PlainAnswer(c) /\ TwoOutcomes(c)'
        \/ Critic(c) /\ TwoOutcomes(c)'
        \/ Direct(c) /\ TwoOutcomes(c)'
        \/ FollowUps(c) /\ TwoOutcomes(c)'

SpecTwo == InitTwo /\ [][NextTwo]_vars

---------------------------------------------------------------------------
(* What the properties below read off a state. *)

\* the positions of trace[c] at which the given stage was invoked
Invocations(c, stage) == {k \in DOMAIN trace[c] : trace[c][k].stage = stage}

\* the stage invoked last by call c is the given one
LastInvoked(c, stage) == trace[c] # <<>> /\ trace[c][Len(trace[c])].stage = stage

\* a completion text from which json.loads gets no object
NotJson(resp) == resp.prose \/ resp.obj = <<>>

\* the bag of the elements of a sequence
BagOfSeq(s) ==
    [x \in {s[k] : k \in DOMAIN s} |-> Cardinality({k \in DOMAIN s : s[k] = x})]

\* a ranked result without its score and explanation
AsSearchResult(r) == [title |-> r.title, url |-> r.url, snippet |-> r.snippet]

SearchResultsOf(ranked) == [k \in DOMAIN ranked |-> AsSearchResult(ranked[k])]

\* rank_search_results has just returned to call c
Ranked(c) == pc[c] = "context"

\* get_context_from_results has just returned to call c
ContextBuilt(c) == pc[c] = "answer"

\* the urls the Text Extractor was asked for, in the order of the requests
ScrapedUrls(c) ==
    LET at == Invocations(c, "extractor")
    IN  [k \in 1..Cardinality(at) |-> trace[c][CHOOSE j \in at :
            Cardinality({m \in at : m <= j}) = k].arg]

UrlsOf(results) == [k \in DOMAIN results |-> results[k].url]

---------------------------------------------------------------------------
(* C1. process_query of the self-critiquing pipeline always ends answered: *)
(* whatever the stages hand back, no exception propagates out of it, and   *)
(* the record it returns carries an answer.                                *)
C1_AlwaysAnswered ==
    \A c \in Calls :
        pipeline[c] = "updated" =>
            /\ pc[c] # "raised"
            /\ exc[c] = ""
            /\ pc[c] = "done" => "answer" \in DOMAIN result[c]

(* C2. Every process_query of the self-critiquing pipeline that has        *)
(* returned has invoked the Follow-up Generator exactly once, as its last  *)
(* stage and on the final answer, whichever branch produced the answer     *)
(* (no search, search with results, search with zero results), and the     *)
(* follow_up_questions it returns are the generator's output.              *)
C2_FollowUpsAlwaysRun ==
    \A c \in Calls :
        (pipeline[c] = "updated" /\ pc[c] = "done") =>
            /\ Cardinality(Invocations(c, "followup")) = 1
            /\ LastInvoked(c, "followup")
            /\ trace[c][Len(trace[c])].arg = result[c]["answer"]
            /\ result[c]["follow_up_questions"] = generate_follow_up_questions(response[c])

(* C3. In both pipelines, once the Web Search Client has handed back an    *)
(* empty list, process_query has returned, the answer is the fixed "I      *)
(* couldn't find any relevant information ..." string, and neither the     *)
(* ranker, the extractor, the synthesizer nor the critic has been invoked. *)
C3_EmptySearchStopsThePipeline ==
    \A c \in Calls :
        (Invocations(c, "search") # {} /\ search_results[c] = <<>>) =>
            /\ pc[c] = "done"
            /\ pipeline[c] = "plain" =>
                  answer[c] = "I couldn't find any relevant information on the web for your query."
            /\ pipeline[c] = "updated" =>
                  result[c]["answer"] = "I couldn't find any relevant information on the web for your query."
            /\ \A k \in DOMAIN trace[c] :
                  trace[c][k].stage \notin {"ranker", "extractor", "synthesizer", "critic"}

\* the search of the self-critiquing pipeline came back empty and the call returned
C3_Witness ==
    \E c \in Calls :
        /\ pipeline[c] = "updated" /\ pc[c] = "done"
        /\ Invocations(c, "search") # {} /\ search_results[c] = <<>>
        /\ result[c]["answer"] = NoInformation

\* the classifier's completion raised, held no JSON object, or held an object
\* without search_needed or without reasoning
ClassifierFailure(resp) ==
    \/ resp.raises
    \/ resp.obj = <<>>
    \/ "search_needed" \notin DOMAIN resp.obj[1]
    \/ "reasoning" \notin DOMAIN resp.obj[1]

(* C4. The classifier fails open. When its completion fails (above), the   *)
(* decision is (True, "Error in decision process, defaulting to search");  *)
(* and from that decision on the next stage invoked is the Web Search      *)
(* Client and every result the call holds from then on, the returned one   *)
(* included, has search_performed = True.                                  *)
C4_ClassifierFailsOpen ==
    \A c \in Calls :
        pipeline[c] = "updated" =>
            /\ (LastInvoked(c, "classifier") /\ ClassifierFailure(response[c])) =>
                  /\ search_needed[c] = TRUE
                  /\ result[c]["search_decision_reasoning"]
                        = "Error in decision process, defaulting to search"
            /\ (pc[c] # "start" /\ result[c]["search_decision_reasoning"]
                        = "Error in decision process, defaulting to search") =>
                  /\ pc[c] # "direct"
                  /\ Invocations(c, "direct") = {}
                  /\ Len(trace[c]) >= 2 =>
                        (trace[c][2].stage = "search" /\ result[c]["search_performed"] = TRUE)
                  /\ pc[c] = "done" => result[c]["search_performed"] = TRUE

\* a call whose classifier failed has searched and returned
C4_Witness ==
    \E c \in Calls :
        /\ pipeline[c] = "updated" /\ pc[c] = "done"
        /\ result[c]["search_decision_reasoning"] = ErrorReasoning
        /\ result[c]["search_performed"] = TRUE
        /\ Invocations(c, "search") # {}

(* C5. For a non-empty input and any ranking response, the list            *)
(* rank_search_results returns is sorted non-increasing by relevance_score *)
(* and each of its items has the title, url and snippet of an input item.  *)
C5_RankedSortedAndFromInput ==
    \A c \in Calls :
        (Ranked(c) /\ search_results[c] # <<>>) =>
            /\ \A j, k \in DOMAIN ranked_results[c] :
                  j < k => ranked_results[c][j].relevance_score
                              >= ranked_results[c][k].relevance_score
            /\ \A k \in DOMAIN ranked_results[c] :
                  \E j \in DOMAIN search_results[c] :
                      AsSearchResult(ranked_results[c][k]) = search_results[c][j]

\* the response lists a lower score before a higher one, and the sort swaps them
C5_Witness ==
    \E c \in Calls :
        /\ Ranked(c) /\ Len(search_results[c]) = 2
        /\ ~response[c].raises /\ ~NotJson(response[c])
        /\ "rankings" \in DOMAIN response[c].obj[1]
        /\ Len(response[c].obj[1]["rankings"]) = 2
        /\ response[c].obj[1]["rankings"][1] = [index |-> 0, score |-> 4, explanation |-> "why"]
        /\ response[c].obj[1]["rankings"][2] = [index |-> 1, score |-> 6, explanation |-> "why"]
        /\ Len(ranked_results[c]) = 2
        /\ AsSearchResult(ranked_results[c][1]) = search_results[c][2]
        /\ search_results[c][1] # search_results[c][2]

\* a ranking response that parses, whose entries all carry an index, a
\* non-null score and an explanation
WellFormedRankings(resp) ==
    /\ resp # NoResponse /\ ~resp.raises /\ ~NotJson(resp)
    /\ "rankings" \in DOMAIN resp.obj[1]
    /\ \A k \in DOMAIN resp.obj[1]["rankings"] :
          /\ DOMAIN resp.obj[1]["rankings"][k] = {"index", "score", "explanation"}
          /\ resp.obj[1]["rankings"][k]["score"] # NullScore

(* C6. The list rank_search_results returns is a permutation or subset of  *)
(* its input: no input position appears in it more than once, it is never  *)
(* longer than the input, and an entry with an out-of-bounds index is      *)
(* dropped without triggering the fallback.                                *)
C6_RankedIsSubsetOfInput ==
    \A c \in Calls :
        (Ranked(c) /\ search_results[c] # <<>>) =>
            /\ Len(ranked_results[c]) <= Len(search_results[c])
            /\ BagOfSeq(SearchResultsOf(ranked_results[c]))
                  \sqsubseteq BagOfSeq(search_results[c])
            /\ WellFormedRankings(response[c]) =>
                  Len(ranked_results[c]) =
                      Cardinality({k \in DOMAIN response[c].obj[1]["rankings"] :
                          /\ 0 <= response[c].obj[1]["rankings"][k]["index"]
                          /\ response[c].obj[1]["rankings"][k]["index"] < Len(search_results[c])})

\* the ranking response was no use: the call raised, the text was no JSON, or
\* the object has no "rankings"
RankingFailure(resp) ==
    \/ resp.raises
    \/ NotJson(resp)
    \/ "rankings" \notin DOMAIN resp.obj[1]

(* C7. When ranking fails (above), rank_search_results returns one item    *)
(* per input, in input order, each with the input's title, url and         *)
(* snippet, relevance_score 5 and explanation "Ranking failed"; nothing    *)
(* is raised.                                                              *)
C7_RankingFailureKeepsInput ==
    \A c \in Calls :
        (Ranked(c) /\ search_results[c] # <<>> /\ RankingFailure(response[c])) =>
            /\ exc[c] = ""
            /\ Len(ranked_results[c]) = Len(search_results[c])
            /\ \A k \in DOMAIN search_results[c] :
                  /\ AsSearchResult(ranked_results[c][k]) = search_results[c][k]
                  /\ ranked_results[c][k].relevance_score = 5
                  /\ ranked_results[c][k].explanation = "Ranking failed"

\* ranking failed on two different results
C7_Witness ==
    \E c \in Calls :
        /\ Ranked(c) /\ Len(search_results[c]) >= 2
        /\ search_results[c][1] # search_results[c][2]
        /\ response[c] # NoResponse /\ RankingFailure(response[c])
        /\ Len(ranked_results[c]) = Len(search_results[c])

(* C8, as claimed. For every ranked list and every integer max_results,    *)
(* get_context_from_results asks the Text Extractor for exactly the first  *)
(* min(max_results, len(ranked_results)) results, in rank order.           *)
C8_ScrapesFirstMin ==
    \A c \in Calls :
        ContextBuilt(c) =>
            ScrapedUrls(c) = UrlsOf(SubSeq(ranked_results[c], 1,
                                Min(max_context_results[c], Len(ranked_results[c]))))

(* C8, amended. For max_results >= 0, get_context_from_results asks the    *)
(* Text Extractor for exactly the first min(max_results, len) results, in  *)
(* rank order, and at no time has it asked for more than max_results. For  *)
(* max_results < 0 it asks for exactly the first                           *)
(* max(len + max_results, 0) results, in rank order.                       *)
C8_ScrapesPythonPrefix ==
    \A c \in Calls :
        /\ max_context_results[c] >= 0 =>
              Cardinality(Invocations(c, "extractor")) <= max_context_results[c]
        /\ ContextBuilt(c) =>
              ScrapedUrls(c) = UrlsOf(SubSeq(ranked_results[c], 1,
                  IF max_context_results[c] >= 0
                  THEN Min(max_context_results[c], Len(ranked_results[c]))
                  ELSE Max(Len(ranked_results[c]) + max_context_results[c], 0)))

\* a ranked list longer than max_results, of which max_results were scraped
C8_Witness ==
    \E c \in Calls :
        /\ ContextBuilt(c)
        /\ max_context_results[c] = 2 /\ Len(ranked_results[c]) = 3
        /\ ranked_results[c][1].url # ranked_results[c][2].url
        /\ ScrapedUrls(c) = <<ranked_results[c][1].url, ranked_results[c][2].url>>

(* C9. A failed extraction does not abort get_context_from_results: no     *)
(* exception leaves it, and in the blob it returns the k-th selected       *)
(* result whose extraction failed has the section "Source k: title (url)"  *)
(* with the content "Failed to scrape content from {url}: {error}", and    *)
(* the content extracted from every other selected url is in the blob too. *)
C9_FailedScrapeKeepsTheRest ==
    \A c \in Calls :
        /\ pc[c] \in {"scrape", "answer"} => exc[c] = ""
        /\ ContextBuilt(c) =>
              /\ Len(trace[c]) = Len(top_results[c])
              /\ \A k \in DOMAIN trace[c] :
                    /\ trace[c][k].stage = "extractor"
                    /\ trace[c][k].arg = top_results[c][k].url
                    /\ IF trace[c][k].fetch.raises
                       THEN Contains(context[c],
                                Lit("Source ", 7) \o Lit(ToString(k), 1) \o Lit(": ", 2)
                                \o Str(top_results[c][k].title) \o Lit(" (", 2)
                                \o Str(trace[c][k].arg) \o Lit(")\n\n", 3)
                                \o Lit("Failed to scrape content from ", 30)
                                \o Str(trace[c][k].arg) \o Lit(": ", 2)
                                \o Str(trace[c][k].fetch.err) \o Lit("\n\n", 2))
                       ELSE /\ trace[c][k].out # <<>> =>
                                Contains(context[c],
                                    Lit("Source ", 7) \o Lit(ToString(k), 1) \o Lit(": ", 2)
                                    \o Str(top_results[c][k].title) \o Lit(" (", 2)
                                    \o Str(trace[c][k].arg) \o Lit(")\n\n", 3)
                                    \o trace[c][k].out \o Lit("\n\n", 2))
                            /\ TextLen(trace[c][k].fetch.text) <= 15000 =>
                                trace[c][k].out = trace[c][k].fetch.text

\* the first url failed, the second was extracted, and both are in the blob
C9_Witness ==
    \E c \in Calls :
        /\ ContextBuilt(c) /\ Len(trace[c]) >= 2
        /\ trace[c][1].fetch.raises
        /\ ~trace[c][2].fetch.raises /\ trace[c][2].fetch.text # <<>>
        /\ trace[c][1].arg # trace[c][2].arg
        /\ Contains(context[c], trace[c][2].fetch.text)
        /\ Contains(context[c], Lit("Failed to scrape content from ", 30)
                                \o Str(trace[c][1].arg) \o Lit(": ", 2)
                                \o Str(trace[c][1].fetch.err))

\* the critic's completion raised or its text was no JSON
CriticFailure(resp) == resp.raises \/ NotJson(resp)

(* C10. A failed refinement keeps the draft. When the critic's completion  *)
(* raises or is not valid JSON, evaluate_and_refine_answer returns 5 for   *)
(* each of accuracy, completeness, clarity, conciseness and evidence,      *)
(* issues = ["Error in evaluation process"] and the draft as               *)
(* refined_answer; and a result that carries those issues, the returned    *)
(* one included, has answer = refined_answer = initial_answer = the draft. *)
C10_FailedCritiqueKeepsDraft ==
    \A c \in Calls :
        pipeline[c] = "updated" =>
            /\ (LastInvoked(c, "critic") /\ CriticFailure(response[c])) =>
                  /\ evaluation[c] =
                        [evaluation |-> [accuracy |-> 5, completeness |-> 5, clarity |-> 5,
                                         conciseness |-> 5, evidence |-> 5],
                         issues |-> <<"Error in evaluation process">>,
                         refined_answer |-> initial_answer[c]]
                  /\ pc[c] = "followup"
                  /\ result[c]["issues"] = <<"Error in evaluation process">>
            /\ ("issues" \in DOMAIN result[c]
                /\ result[c]["issues"] = <<"Error in evaluation process">>) =>
                  /\ result[c]["evaluation"] =
                        [accuracy |-> 5, completeness |-> 5, clarity |-> 5,
                         conciseness |-> 5, evidence |-> 5]
                  /\ result[c]["answer"] = initial_answer[c]
                  /\ result[c]["refined_answer"] = initial_answer[c]
                  /\ result[c]["initial_answer"] = initial_answer[c]
                  /\ initial_answer[c] # ""

\* a call whose critique failed has returned its draft as the answer
C10_Witness ==
    \E c \in Calls :
        /\ pipeline[c] = "updated" /\ pc[c] = "done"
        /\ "issues" \in DOMAIN result[c]
        /\ result[c]["issues"] = <<"Error in evaluation process">>
        /\ result[c]["answer"] = result[c]["initial_answer"]
        /\ result[c]["answer"] \in Answers

\* the only invocation of the given stage by call c
TheInvocation(c, stage) == trace[c][CHOOSE k \in Invocations(c, stage) : TRUE]

\* process_query of the self-critiquing pipeline has returned to call c
Returned(c) == pipeline[c] = "updated" /\ pc[c] = "done"

(* C11, as claimed. In every result the self-critiquing process_query      *)
(* returns, answer = refined_answer when search_performed is true, and     *)
(* answer is what the direct completion gave when it is false.             *)
C11_AnswerIsRefinedOrDirect ==
    \A c \in Calls :
        Returned(c) =>
            IF result[c]["search_performed"]
            THEN result[c]["answer"] = result[c]["refined_answer"]
            ELSE /\ Invocations(c, "direct") # {}
                 /\ result[c]["answer"] =
                        IF TheInvocation(c, "direct").resp.raises
                        THEN "Sorry, I encountered an error while generating your answer: "
                                 \o TheInvocation(c, "direct").resp.err
                        ELSE TheInvocation(c, "direct").resp.text

(* C11, amended. In every result the self-critiquing process_query         *)
(* returns: when search_performed is true and the search found results,    *)
(* the critic has run and answer = refined_answer; when search_performed   *)
(* is true and the search found nothing, answer is the fixed "I couldn't   *)
(* find ..." string and refined_answer is the empty string; when           *)
(* search_performed is false, answer is the text of the direct completion, *)
(* or the apology carrying its error when that completion raised.          *)
C11_AnswerIsRefinedWhenCritiqued ==
    \A c \in Calls :
        Returned(c) =>
            IF result[c]["search_performed"]
            THEN IF search_results[c] # <<>>
                 THEN /\ Invocations(c, "critic") # {}
                      /\ result[c]["answer"] = result[c]["refined_answer"]
                 ELSE /\ result[c]["answer"] =
                            "I couldn't find any relevant information on the web for your query."
                      /\ result[c]["refined_answer"] = ""
            ELSE /\ Invocations(c, "direct") # {}
                 /\ result[c]["answer"] =
                        IF TheInvocation(c, "direct").resp.raises
                        THEN "Sorry, I encountered an error while generating your answer: "
                                 \o TheInvocation(c, "direct").resp.err
                        ELSE TheInvocation(c, "direct").resp.text

\* a returned result whose answer is the critic's refined answer, not the draft
C11_Witness ==
    \E c \in Calls :
        /\ Returned(c) /\ result[c]["search_performed"]
        /\ Invocations(c, "critic") # {}
        /\ result[c]["refined_answer"] = "r1"
        /\ result[c]["answer"] = "r1"
        /\ result[c]["initial_answer"] # "r1"

(* C12. Whenever the classifier decides that no search is needed, the      *)
(* result process_query returns has the key initial_answer, and its value  *)
(* equals answer, whether the direct completion succeeded or raised.       *)
C12_DirectAnswerIsInitialAnswer ==
    \A c \in Calls :
        (Returned(c) /\ ~search_needed[c]) =>
            /\ "initial_answer" \in DOMAIN result[c]
            /\ result[c]["initial_answer"] = result[c]["answer"]

\* the stages call c has invoked, in order
StagesOf(c) == [k \in DOMAIN trace[c] |-> trace[c][k].stage]

\* the place of a stage in process_query
StageOrder(stage) ==
    CASE stage = "classifier"  -> 1
      [] stage = "search"      -> 2
      [] stage = "direct"      -> 2
      [] stage = "ranker"      -> 3
      [] stage = "extractor"   -> 4
      [] stage = "synthesizer" -> 5
      [] stage = "critic"      -> 6
      [] stage = "followup"    -> 7

\* "Source k: title (url)\n\n" followed by the content and "\n\n"
LabeledSection(k, title, url, content) ==
    Lit("Source ", 7) \o Lit(ToString(k), 1) \o Lit(": ", 2) \o Str(title)
    \o Lit(" (", 2) \o Str(url) \o Lit(")\n\n", 3) \o content \o Lit("\n\n", 2)

\* the invocations of the Text Extractor by call c, in order
Extractions(c) == SelectSeq(trace[c], LAMBDA e : e.stage = "extractor")

\* the sections of the extractions among the first m of call c that gave
\* some text, each labeled with the place of its extraction
RECURSIVE SectionsWithText(_, _)
SectionsWithText(c, m) ==
    IF m = 0 THEN <<>>
    ELSE SectionsWithText(c, m - 1)
         \o IF Extractions(c)[m].out = <<>> THEN <<>>
            ELSE <<LabeledSection(m, top_results[c][m].title, Extractions(c)[m].arg,
                                  Extractions(c)[m].out)>>

(* C17. In the self-critiquing process_query the classifier is the first   *)
(* stage invoked; the stages are invoked in the order classifier, search   *)
(* (or the direct completion), ranker, extractions, synthesizer, critic,   *)
(* follow-ups, none but the extractor twice; a call that has returned      *)
(* after a search with results has invoked, extractions aside, exactly     *)
(* classifier, search, ranker, synthesizer, critic, follow-ups; the        *)
(* critic's draft is what the synthesizer returned; and the context in the *)
(* result is the blob the Context Builder returned.                        *)
C17_StagesInOrder ==
    \A c \in Calls :
        pipeline[c] = "updated" =>
            /\ trace[c] # <<>> => StagesOf(c)[1] = "classifier"
            /\ \A j, k \in DOMAIN trace[c] :
                  j < k =>
                      \/ StageOrder(StagesOf(c)[j]) < StageOrder(StagesOf(c)[k])
                      \/ StagesOf(c)[j] = "extractor" /\ StagesOf(c)[k] = "extractor"
            /\ (pc[c] = "done" /\ search_results[c] # <<>>) =>
                  /\ SelectSeq(StagesOf(c), LAMBDA st : st # "extractor")
                        = <<"classifier", "search", "ranker", "synthesizer", "critic", "followup">>
                  /\ "context" \in DOMAIN result[c]
            /\ Invocations(c, "critic") # {} =>
                  /\ Invocations(c, "synthesizer") # {}
                  /\ TheInvocation(c, "critic").arg = TheInvocation(c, "synthesizer").out
                  /\ TheInvocation(c, "synthesizer").out =
                        IF TheInvocation(c, "synthesizer").resp.raises
                        THEN "Sorry, I encountered an error while generating your answer: "
                                 \o TheInvocation(c, "synthesizer").resp.err
                        ELSE TheInvocation(c, "synthesizer").resp.text
            /\ "context" \in DOMAIN result[c] =>
                  /\ result[c]["context"] = context[c]
                  /\ result[c]["context"] =
                        Join(SectionsWithText(c, Len(Extractions(c))), Lit("\n", 1))

\* a call has returned after every stage of the search branch, with a
\* context of two sections
C17_Witness ==
    \E c \in Calls :
        /\ Returned(c)
        /\ Cardinality(Invocations(c, "extractor")) = 2
        /\ Invocations(c, "critic") # {} /\ Invocations(c, "followup") # {}
        /\ TheInvocation(c, "critic").arg = "a1"
        /\ Contains(result[c]["context"], Lit("Source ", 7) \o Lit("2", 1))

\* the stages that make a completion call
CompletionStages == {"classifier", "ranker", "synthesizer", "direct", "critic", "followup"}

\* the completion calls call c has made
CompletionCalls(c) == {k \in DOMAIN trace[c] : trace[c][k].stage \in CompletionStages}

(* C18. No stage is retried. Within one self-critiquing process_query the  *)
(* classifier, the web search, the ranker, the synthesizer, the direct     *)
(* completion, the critic and the follow-up generator are each invoked at  *)
(* most once, whether they fail or not; the call makes at most five        *)
(* completion calls when it searches and at most three when it does not.   *)
C18_NoStageIsRetried ==
    \A c \in Calls :
        pipeline[c] = "updated" =>
            /\ \A stage \in {"classifier", "search", "ranker", "synthesizer",
                             "direct", "critic", "followup"} :
                  Cardinality(Invocations(c, stage)) <= 1
            /\ Cardinality(CompletionCalls(c)) <= 5
            /\ Invocations(c, "search") = {} => Cardinality(CompletionCalls(c)) <= 3

\* a call whose classifier and critic both failed has returned after five
\* completion calls
C18_Witness ==
    \E c \in Calls :
        /\ Returned(c)
        /\ result[c]["search_decision_reasoning"] = ErrorReasoning
        /\ "issues" \in DOMAIN result[c]
        /\ result[c]["issues"] = <<"Error in evaluation process">>
        /\ Cardinality(CompletionCalls(c)) = 5

(* C19. Once the classifier has decided that no search is needed, the      *)
(* self-critiquing process_query invokes neither the web search, nor the   *)
(* ranker, nor the extractor, nor the critic, and search_performed is      *)
(* False in its result, the returned one included; and a returned result   *)
(* has the key context only if its search_performed is True.               *)
C19_NoSearchNoContext ==
    \A c \in Calls :
        pipeline[c] = "updated" =>
            /\ (Invocations(c, "classifier") # {} /\ ~search_needed[c]) =>
                  /\ \A k \in DOMAIN trace[c] :
                        trace[c][k].stage \notin {"search", "ranker", "extractor", "critic"}
                  /\ result[c]["search_performed"] = FALSE
            /\ pc[c] = "done" =>
                  ("context" \in DOMAIN result[c] => result[c]["search_performed"] = TRUE)

\* a call whose classifier asked for no search has returned
C19_Witness ==
    \E c \in Calls :
        /\ Returned(c)
        /\ ~search_needed[c]
        /\ result[c]["search_decision_reasoning"] = "because"
        /\ result[c]["search_performed"] = FALSE
        /\ Invocations(c, "direct") # {}
        /\ "context" \notin DOMAIN result[c]

\* the sections of the first m extractions of call c, each labeled with the
\* place of its extraction
RECURSIVE SectionsOfAll(_, _)
SectionsOfAll(c, m) ==
    IF m <= 0 THEN <<>>
    ELSE SectionsOfAll(c, m - 1)
         \o <<LabeledSection(m, ranked_results[c][m].title, ranked_results[c][m].url,
                             Extractions(c)[m].out)>>

(* C20, as claimed. The blob get_context_from_results returns is made of   *)
(* one labeled section per selected result, in rank order, labeled         *)
(* "Source 1" to "Source n" with n = min(max_results, len(ranked_results)),*)
(* whatever text the extractor returned, the empty string included. It is  *)
(* stated for max_results >= 0, where n is a number of results.            *)
C20_OneSectionPerSelected ==
    \A c \in Calls :
        (ContextBuilt(c) /\ max_context_results[c] >= 0) =>
            /\ Len(Extractions(c)) = Min(max_context_results[c], Len(ranked_results[c]))
            /\ context[c] = Join(SectionsOfAll(c, Len(Extractions(c))), Lit("\n", 1))

(* C20, amended. The blob get_context_from_results returns is made of one  *)
(* labeled section per selected result whose extracted text is not empty,  *)
(* in rank order, joined by newlines, the section of the k-th selected     *)
(* result labeled "Source k" and holding its title, its url and the        *)
(* extracted text; a selected result whose text is empty has no section    *)
(* and the later labels are not renumbered. The selected results are       *)
(* ranked_results[:max_results]: the first min(max_results, len) for       *)
(* max_results >= 0, the first max(len + max_results, 0) otherwise.        *)
C20_OneSectionPerNonEmptyText ==
    \A c \in Calls :
        ContextBuilt(c) =>
            /\ Len(Extractions(c)) =
                  IF max_context_results[c] >= 0
                  THEN Min(max_context_results[c], Len(ranked_results[c]))
                  ELSE Max(Len(ranked_results[c]) + max_context_results[c], 0)
            /\ \A k \in DOMAIN Extractions(c) :
                  /\ Extractions(c)[k].arg = ranked_results[c][k].url
                  /\ top_results[c][k] = ranked_results[c][k]
            /\ context[c] = Join(SectionsWithText(c, Len(Extractions(c))), Lit("\n", 1))

\* the first selected page gave no text and the second did: the blob is the
\* section "Source 2" alone
C20_Witness ==
    \E c \in Calls :
        /\ ContextBuilt(c) /\ Len(Extractions(c)) = 2
        /\ Extractions(c)[1].out = <<>> /\ Extractions(c)[2].out # <<>>
        /\ context[c] = LabeledSection(2, ranked_results[c][2].title,
                                       ranked_results[c][2].url, Extractions(c)[2].out)

\* the entries of a rankings array whose index is a position of results
InBounds(rankings, results) ==
    SelectSeq(rankings, LAMBDA rank : 0 <= rank["index"] /\ rank["index"] < Len(results))

\* the ranked result a ranking entry stands for
ItemOf(rank, results) ==
    [title           |-> results[rank["index"] + 1].title,
     url             |-> results[rank["index"] + 1].url,
     snippet         |-> results[rank["index"] + 1].snippet,
     relevance_score |-> rank["score"],
     explanation     |-> rank["explanation"]]

(* C22. The descending sort of rank_search_results is stable: for every    *)
(* score, the results returned with that score are the results of the      *)
(* in-bounds ranking entries with that score, in the order in which the    *)
(* ranking response lists those entries.                                   *)
C22_TiesKeepResponseOrder ==
    \A c \in Calls :
        (Ranked(c) /\ search_results[c] # <<>> /\ WellFormedRankings(response[c])) =>
            LET listed == InBounds(response[c].obj[1]["rankings"], search_results[c])
            IN  \A score \in {listed[k]["score"] : k \in DOMAIN listed} :
                    SelectSeq(ranked_results[c], LAMBDA r : r.relevance_score = score)
                      = [k \in DOMAIN SelectSeq(listed, LAMBDA rank : rank["score"] = score) |->
                            ItemOf(SelectSeq(listed, LAMBDA rank : rank["score"] = score)[k],
                                   search_results[c])]

\* the response gives the second result and then the first the same score,
\* and they are returned in that order
C22_Witness ==
    \E c \in Calls :
        /\ Ranked(c) /\ Len(search_results[c]) = 2
        /\ search_results[c][1] # search_results[c][2]
        /\ WellFormedRankings(response[c])
        /\ Len(response[c].obj[1]["rankings"]) = 2
        /\ response[c].obj[1]["rankings"][1]["index"] = 1
        /\ response[c].obj[1]["rankings"][2]["index"] = 0
        /\ response[c].obj[1]["rankings"][1]["score"] = response[c].obj[1]["rankings"][2]["score"]
        /\ Len(ranked_results[c]) = 2
        /\ AsSearchResult(ranked_results[c][1]) = search_results[c][2]
        /\ AsSearchResult(ranked_results[c][2]) = search_results[c][1]

\* the follow-up response carries a list of questions that all have a priority
WellFormedFollowUps(resp) ==
    /\ ~resp.raises /\ CanLoad(resp)
    /\ "follow_up_questions" \in DOMAIN Loads(resp)
    /\ \A j \in DOMAIN Loads(resp)["follow_up_questions"] :
           "priority" \in DOMAIN Loads(resp)["follow_up_questions"][j]

\* what the step that runs generate_follow_up_questions for call c leaves behind
FollowUpStepIsContained(c) ==
    LET questions == result'[c]["follow_up_questions"]
    IN  /\ \A j, k \in DOMAIN questions :
               j < k => questions[j]["priority"] >= questions[k]["priority"]
        /\ WellFormedFollowUps(response'[c]) =>
               BagOfSeq(questions) = BagOfSeq(Loads(response'[c])["follow_up_questions"])
        /\ ~WellFormedFollowUps(response'[c]) => questions = <<>>
        /\ DOMAIN result'[c] = DOMAIN result[c]
        /\ \A key \in DOMAIN result[c] \ {"follow_up_questions"} :
               result'[c][key] = result[c][key]

(* C23. The step of process_query that generates the follow-up questions   *)
(* stores the response's questions sorted non-increasing by priority, or   *)
(* the empty list when the completion call raises or the response is       *)
(* malformed, and leaves every other field of the result as it was: no     *)
(* outcome of the follow-up call changes the answer or the evaluation.     *)
C23_FollowUpsSortedAndContained ==
    [][\A c \in Calls :
           (pc[c] = "followup" /\ pc'[c] = "done") => FollowUpStepIsContained(c)]_vars

\* a returned result whose questions are the response's in the other order
C23_Witness ==
    \E c \in Calls :
        /\ Returned(c) /\ LastInvoked(c, "followup")
        /\ WellFormedFollowUps(response[c])
        /\ Len(result[c]["follow_up_questions"]) = 2
        /\ result[c]["follow_up_questions"][1] = Loads(response[c])["follow_up_questions"][2]
        /\ result[c]["follow_up_questions"][2] = Loads(response[c])["follow_up_questions"][1]
        /\ result[c]["follow_up_questions"][1]["priority"]
             > result[c]["follow_up_questions"][2]["priority"]
        /\ result[c]["evaluation"] # EmptyDict

\* text p is the first TextLen(p) characters of text t
IsTextPrefix(p, t) ==
    /\ p # <<>> /\ Len(p) <= Len(t)
    /\ \A k \in 1..(Len(p) - 1) : p[k] = t[k]
    /\ p[Len(p)].s = t[Len(p)].s
    /\ p[Len(p)].n <= t[Len(p)].n

\* the last chunk of a text is the truncation marker
EndsWithMarker(t) == t # <<>> /\ <<t[Len(t)]>> = TruncationMarker

\* the extractions of call c whose fetch gave a cleaned text
SuccessfulExtractions(c) == SelectSeq(Extractions(c), LAMBDA e : ~e.fetch.raises)

(* C25. For a cleaned page text of L characters scrape_webpage returns the *)
(* text unchanged when L <= 15000, and its first 15000 characters followed *)
(* by the marker "...[content truncated]" when L > 15000; the marker is    *)
(* appended exactly when L > 15000, and no successful extraction returns   *)
(* more than 15000 characters plus the marker.                             *)
C25_TruncatesAboveTheLimit ==
    \A c \in Calls :
        \A k \in DOMAIN SuccessfulExtractions(c) :
            LET text == SuccessfulExtractions(c)[k].fetch.text
                out == SuccessfulExtractions(c)[k].out
            IN  /\ TextLen(text) <= 15000 => out = text
                /\ TextLen(text) > 15000 =>
                       /\ EndsWithMarker(out)
                       /\ IsTextPrefix(SubSeq(out, 1, Len(out) - 1), text)
                       /\ TextLen(SubSeq(out, 1, Len(out) - 1)) = 15000
                /\ (out # text) <=> TextLen(text) > 15000
                /\ TextLen(out) <= 15000 + TextLen(TruncationMarker)

\* one call has extracted a text of exactly 15000 characters, returned whole,
\* and a text of 15001 characters, returned cut and marked
C25_Witness ==
    \E c \in Calls :
        \E j, k \in DOMAIN SuccessfulExtractions(c) :
            /\ TextLen(SuccessfulExtractions(c)[j].fetch.text) = 15000
            /\ SuccessfulExtractions(c)[j].out = SuccessfulExtractions(c)[j].fetch.text
            /\ TextLen(SuccessfulExtractions(c)[k].fetch.text) = 15001
            /\ TextLen(SuccessfulExtractions(c)[k].out) = 15022
            /\ EndsWithMarker(SuccessfulExtractions(c)[k].out)

---------------------------------------------------------------------------
(* What the properties of call_claude_with_tools read off a state. *)

\* the completion responses received so far, in order
Responses ==
    SelectSeq([k \in DOMAIN completions |-> completions[k].outcome],
              LAMBDA o : ~o.raises)

\* the tool calls requested by a sequence of responses, in order
RECURSIVE RequestedBy(_)
RequestedBy(resps) ==
    IF resps = <<>> THEN <<>> ELSE Head(resps).tool_use \o RequestedBy(Tail(resps))

\* the endpoint the registry gives for a tool name
EndpointOf(name) ==
    IF name = "file_system" THEN "http://localhost:8080/files"
    ELSE IF name = "database" THEN "http://localhost:8081/query"
    ELSE "none"

(* C13. In call_claude_with_tools every POST issued is for a requested      *)
(* tool call, in the order of the requests, and goes to the endpoint of    *)
(* the tool the call names; no completion call follows a response that     *)
(* requests no tool; and when the function has returned, it has issued     *)
(* exactly one POST per tool call requested over all responses, the last   *)
(* response is the first that requests no tool, and its content is what is *)
(* returned. So a service that requests tool X once and then stops causes  *)
(* exactly one POST, to X's endpoint, and exactly two completion calls.    *)
C13_OnePostPerRequestedCall ==
    /\ Len(posts) <= Len(RequestedBy(Responses))
    /\ \A k \in DOMAIN posts :
          posts[k].url = EndpointOf(RequestedBy(Responses)[k].name)
    /\ \A k \in DOMAIN completions :
          k < Len(completions) =>
              /\ ~completions[k].outcome.raises
              /\ completions[k].outcome.tool_use # <<>>
    /\ loop_pc = "returned" =>
          /\ Len(posts) = Len(RequestedBy(Responses))
          /\ completions # <<>>
          /\ ~completions[Len(completions)].outcome.raises
          /\ completions[Len(completions)].outcome.tool_use = <<>>
          /\ returned = completions[Len(completions)].outcome.content
    /\ (/\ Len(Responses) >= 2
        /\ Len(Responses[1].tool_use) = 1
        /\ Responses[1].tool_use[1].name \in {"file_system", "database"}
        /\ Responses[2].tool_use = <<>>
        /\ loop_pc # "while") =>
          /\ loop_pc = "returned"
          /\ Len(completions) = 2
          /\ Len(posts) = 1
          /\ posts[1].url = EndpointOf(Responses[1].tool_use[1].name)

\* the service requested the database tool once and then stopped
C13_Witness ==
    /\ loop_pc = "returned"
    /\ Len(completions) = 2
    /\ Len(completions[1].outcome.tool_use) = 1
    /\ completions[1].outcome.tool_use[1].name = "database"
    /\ Len(posts) = 1
    /\ posts[1].url = "http://localhost:8081/query"

\* the message list of the k-th completion call
Submitted(k) == completions[k].messages

\* a message list ends with the assistant turn of msg and a tool-result turn
EndsWithTurnsOf(msgs, msg) ==
    /\ Len(msgs) >= 2
    /\ msgs[Len(msgs) - 1] = [role |-> "assistant", content |-> msg.content,
                              tool_use |-> msg.tool_use]
    /\ DOMAIN msgs[Len(msgs)] = {"role", "tool_results"}
    /\ msgs[Len(msgs)].role = "user"

(* C14. The conversation grows: the message list of each completion call   *)
(* after the first starts with the whole message list of the call before   *)
(* it and ends with the assistant turn of the response to that call and    *)
(* the tool-result turn of its tool calls, so that every earlier           *)
(* tool-result turn is in every later request.                             *)
C14_ConversationGrows ==
    \A k \in DOMAIN completions :
        k < Len(completions) =>
            /\ Len(Submitted(k + 1)) > Len(Submitted(k))
            /\ SubSeq(Submitted(k + 1), 1, Len(Submitted(k))) = Submitted(k)
            /\ EndsWithTurnsOf(Submitted(k + 1), completions[k].outcome)

\* a requested tool that matches no registered tool has been reached
UnknownToolReached ==
    /\ loop_pc \notin {"unused", "first", "while", "for"}
    /\ tool_call_index < Len(tool_calls)
    /\ EndpointOf(tool_calls[tool_call_index + 1].name) = "none"

(* C15. When a completion response requests a tool name that matches no    *)
(* registered tool, call_claude_with_tools ends with a reported lookup     *)
(* error, it lets no exception escape, and it issues no POST for that      *)
(* call.                                                                   *)
C15_UnknownToolIsReported ==
    UnknownToolReached =>
        /\ loop_pc = "returned"
        /\ loop_exc = ""
        /\ Len(posts) < Len(RequestedBy(Responses))

\* a completion response has just come back
Responded == loop_pc = "while"

(* C16. call_claude_with_tools has no iteration limit. It returns only on  *)
(* a response that requests no tool, and on such a response it does        *)
(* return; and when no call raises and every response requests at least    *)
(* one tool, it never returns and receives a further response again and    *)
(* again.                                                                  *)
C16_ReturnsIffNoToolIsRequested ==
    /\ [](loop_pc = "returned" => message.tool_use = <<>>)
    /\ ((Responded /\ message.tool_use = <<>>) ~> (loop_pc = "returned"))
    /\ ([](loop_pc # "raised") /\ [](Responded => message.tool_use # <<>>))
          => ([](loop_pc # "returned") /\ []<>Responded)

\* a second response in a row requests a tool
C16_Witness ==
    /\ Responded
    /\ message.tool_use # <<>>
    /\ tool_responses # <<>>

\* the tool calls requested by the responses to the first m completion calls
RequestedUpTo(m) == RequestedBy([k \in 1..m |-> completions[k].outcome])

\* the tool-result turns of a message list
ToolResultTurnsOf(msgs) == SelectSeq(msgs, LAMBDA turn : "tool_results" \in DOMAIN turn)

(* C21. Every completion call after the first is made with all of the     *)
(* tool calls of the response before it dispatched, and its message list   *)
(* holds a single tool-result turn, the last message, with exactly one     *)
(* entry per tool call of that response, in the order of the requests,     *)
(* each with the id of its call and, as its output, the text of the JSON   *)
(* value that the POST for this call to the named tool's endpoint          *)
(* returned.                                                               *)
C21_OneResultPerRequestedCall ==
    \A k \in DOMAIN completions :
        k > 1 =>
            LET requested == completions[k - 1].outcome.tool_use
                before == Len(RequestedUpTo(k - 2))
                msgs == completions[k].messages
                turn == msgs[Len(msgs)]
            IN  /\ requested # <<>>
                /\ Len(posts) >= before + Len(requested)
                /\ Len(ToolResultTurnsOf(msgs)) = 1
                /\ DOMAIN turn = {"role", "tool_results"}
                /\ Len(turn.tool_results) = Len(requested)
                /\ \A j \in DOMAIN requested :
                      /\ turn.tool_results[j].tool_call_id = requested[j].id
                      /\ posts[before + j].url = EndpointOf(requested[j].name)
                      /\ ~posts[before + j].outcome.raises
                      /\ turn.tool_results[j].output =
                            [text_of |-> posts[before + j].outcome.json]

\* a response requested two different tools and the next completion call
\* carried both outputs
C21_Witness ==
    /\ Len(completions) >= 2
    /\ Len(completions[1].outcome.tool_use) = 2
    /\ completions[1].outcome.tool_use[1].name = "database"
    /\ completions[1].outcome.tool_use[2].name = "file_system"
    /\ Len(completions[2].messages[4].tool_results) = 2
    /\ completions[2].messages[4].tool_results[1].output.text_of.served_by
          = "http://localhost:8081/query"
    /\ completions[2].messages[4].tool_results[2].tool_call_id = "call-2"


(* C26. call_claude_with_tools dispatches only to tools it advertised:     *)
(* every POST goes to the endpoint of a tool in the tools_to_use manifest  *)
(* passed to the call, so a response naming a registered tool outside the  *)
(* manifest causes no POST to that tool's endpoint.                        *)
C26_PostsOnlyToAdvertisedTools ==
    \A k \in DOMAIN posts :
        \E j \in DOMAIN tools_to_use : tools_to_use[j].server_url = posts[k].url


\* everything the model holds for call c
CallState(c) ==
    <<pipeline[c], pc[c], query[c], max_context_results[c], result[c], search_needed[c],
      search_results[c], ranked_results[c], top_results[c], i[c], context_parts[c],
      context[c], initial_answer[c], evaluation[c], answer[c], exc[c], response[c],
      trace[c]>>

\* the value the given stage returned to call c
ReturnedBy(c, stage) == TheInvocation(c, stage).out

\* the context get_context_from_results makes of call c's own extractions
OwnContext(c) == Join(SectionsWithText(c, Len(Extractions(c))), Lit("\n", 1))

\* what ranker, context builder and critic handed call c comes from what its
\* own earlier stages returned to it
OwnDataflow(c) ==
    /\ \E resp \in PipelineRankResponses :
           ranked_results[c] = rank_search_results(search_results[c], resp)
    /\ top_results[c] = PySlicePrefix(ranked_results[c], max_context_results[c])
    /\ ScrapedUrls(c) = UrlsOf(top_results[c])
    /\ context[c] = OwnContext(c)
    /\ pipeline[c] = "updated" =>
           /\ initial_answer[c] = ReturnedBy(c, "synthesizer")
           /\ TheInvocation(c, "critic").arg = ReturnedBy(c, "synthesizer")
           /\ \E resp \in CriticResponses :
                  evaluation[c] =
                      evaluate_and_refine_answer(ReturnedBy(c, "synthesizer"), resp)

\* the result the self-critiquing process_query, run by itself, returns for
\* the query of call c and the values the stages returned to call c
AloneResult(c) ==
    LET decision == ReturnedBy(c, "classifier")
        decided == SetKey(InitialResult(query[c]), "search_decision_reasoning", decision[2])
        searched == SetKey(decided, "search_performed", TRUE)
        direct == TheInvocation(c, "direct")
    IN  IF ~decision[1]
        THEN SetKey(IF direct.resp.raises THEN SetKey(decided, "answer", direct.out)
                    ELSE SetKey(SetKey(decided, "answer", direct.out),
                                "initial_answer", direct.out),
                    "follow_up_questions", ReturnedBy(c, "followup"))
        ELSE IF search_results[c] = <<>> THEN SetKey(searched, "answer", NoInformation)
        ELSE SetKey(StoreEvaluation(
                        SetKey(searched, "initial_answer", ReturnedBy(c, "synthesizer")),
                        evaluation[c], context[c]).result,
                    "follow_up_questions", ReturnedBy(c, "followup"))

\* the string the plain process_query, run by itself, returns for the values
\* the stages returned to call c
AloneAnswer(c) ==
    IF search_results[c] = <<>> THEN NoInformation ELSE ReturnedBy(c, "synthesizer")

\* a call that has returned holds what it would hold had it run by itself
SameAsAlone(c) ==
    /\ Returned(c) => result[c] = AloneResult(c)
    /\ (pipeline[c] = "plain" /\ pc[c] = "done") => answer[c] = AloneAnswer(c)
    /\ (pc[c] = "done" /\ search_results[c] # <<>>) => OwnDataflow(c)

(* C24. Two process_query calls interleaved on one pipeline instance do    *)
(* not interfere. No step writes a field of the instance; a step of one    *)
(* call changes nothing the other call holds; and, under every             *)
(* interleaving, what a call returns is what process_query run by itself   *)
(* returns for the same query and the same stage outcomes.                 *)
C24_InterleavedCallsDoNotInterfere ==
    /\ [](\A c \in TwoCalls : SameAsAlone(c))
    /\ [][/\ self' = self
          /\ \A c, d \in TwoCalls :
                (c # d /\ CallState(c)' # CallState(c)) => CallState(d)' = CallState(d)]_vars

\* call 1 has returned a result made from the page of u1 while call 2, on
\* the same instance, is between its synthesis and its critique with the
\* page of u2
C24_Witness ==
    /\ Returned(1) /\ pipeline[2] = "updated" /\ pc[2] = "critic"
    /\ UrlsOf(search_results[1]) = <<"u1">>
    /\ UrlsOf(search_results[2]) = <<"u2">>
    /\ result[1]["context"] # <<>>
    /\ context[2] # <<>>
    /\ result[1]["context"] # context[2]
    /\ result[1]["answer"] = "r1"

\* the stages the plain and the self-critiquing process_query share
SharedStages == {"search", "ranker", "extractor", "synthesizer"}

\* what the shared stages handed call c, in order
SharedOutcomes(c) ==
    <<search_results[c], ranked_results[c],
      SelectSeq(trace[c], LAMBDA e : e.stage \in SharedStages)>>

(* C27. The plain pipeline is the self-critiquing one with classification, *)
(* critique and follow-ups skipped. When a plain call has returned and a   *)
(* self-critiquing call for the same query, whose classifier answered      *)
(* "search needed", was handed the same search, ranking, scraping and      *)
(* synthesis outcomes, then with search results the two built the same     *)
(* context and the plain call's string is the other's initial_answer, and  *)
(* without search results the plain call's string is the other's answer.   *)
C27_PlainIsUpdatedWithoutCritique ==
    \A c, d \in TwoCalls :
        ( /\ pipeline[c] = "plain" /\ pc[c] = "done"
          /\ pipeline[d] = "updated" /\ search_needed[d]
          /\ query[d] = query[c]
          /\ max_context_results[d] = max_context_results[c]
          /\ SharedOutcomes(d) = SharedOutcomes(c) )
        => IF search_results[c] # <<>>
           THEN /\ context[d] = context[c]
                /\ result[d]["initial_answer"] = answer[c]
           ELSE /\ Returned(d)
                /\ result[d]["answer"] = answer[c]

\* both calls were handed the page of u1 and a synthesis that raised; the
\* self-critiquing call has returned a refined answer, and the plain call's
\* string is its initial_answer
C27_Witness ==
    /\ pipeline[1] = "plain" /\ pc[1] = "done"
    /\ Returned(2) /\ search_needed[2]
    /\ SharedOutcomes(2) = SharedOutcomes(1)
    /\ UrlsOf(search_results[1]) = <<"u1">>
    /\ TheInvocation(1, "synthesizer").resp.raises
    /\ answer[1] = result[2]["initial_answer"]
    /\ result[2]["answer"] = "r1"
    /\ answer[1] # result[2]["answer"]

====
